---- MODULE Spec2Model ----
(***************************************************************************)
(* shapefile-geojson-js: the two streaming decoders (SHPTransform,         *)
(* DBFTransform), the polygon ring assembly of parseRecord and the stitch  *)
(* generator, modelled from parser.js / common.js.                         *)
(*                                                                         *)
(* Numbers.  JavaScript numbers are IEEE doubles; the model uses integers. *)
(* getFloat64 decodes the IEEE-754 bit pattern, restricted to the doubles  *)
(* whose value is an integer with at most five significant bits (every     *)
(* byte pattern the inputs below contain); any other pattern stops the     *)
(* evaluation instead of being given a made-up value.  ringArea is kept    *)
(* as the shoelace sum (twice the area): halving is exact and keeps order. *)
(* Text.  TextDecoder('latin1') maps a byte below 128 to the character of  *)
(* that code; a string is the sequence of its character codes.             *)
(* Failures.  A function that can throw returns [err, val]; err is the     *)
(* class of the thrown error ("TypeError", "RangeError") or "none".        *)
(***************************************************************************)
EXTENDS Integers, Sequences, FiniteSets, TLC

VARIABLES
    shp,        \* SHPTransform closure: buffer, offset, needed, status, filesize, bbox
    shpIn,      \* the byte source piped into it: file, bytes delivered, stream state
    dbf,        \* DBFTransform closure: buffer, offset, needed, status, numrec, reclen, fields
    dbfIn,      \* the byte source piped into it
    gen,        \* the stitch generator: its two readers and its position (under
                \* SpecStitch shp and dbf hold what the two streams deliver)
    poly,       \* one polygon record's part list and the geometry decoded from it
    cli         \* shp2json's main loop: options, count, first, what was written

vars == <<shp, shpIn, dbf, dbfIn, gen, poly, cli>>

(***************************************************************************)
(* Small helpers.                                                          *)
(***************************************************************************)
Min(a, b) == IF a < b THEN a ELSE b

Max(a, b) == IF a > b THEN a ELSE b

Abs(a) == IF a < 0 THEN -a ELSE a

RECURSIVE Pow2(_)
Pow2(n) == IF n <= 0 THEN 1 ELSE 2 * Pow2(n - 1)

RECURSIVE Zeros(_)
Zeros(n) == IF n <= 0 THEN <<>> ELSE <<0>> \o Zeros(n - 1)

RECURSIVE Flatten(_)
Flatten(ss) == IF ss = <<>> THEN <<>> ELSE Head(ss) \o Flatten(Tail(ss))

RECURSIVE SumSeq(_)
SumSeq(s) == IF s = <<>> THEN 0 ELSE Head(s) + SumSeq(Tail(s))

\* Array.prototype.reverse
Reverse(s) == [i \in 1..Len(s) |-> s[Len(s) + 1 - i]]

\* Array.prototype.slice(start, end) / ArrayBuffer.prototype.slice: negative
\* indices count from the end, both are clamped to the length.
RelIndex(i, len) == IF i < 0 THEN Max(len + i, 0) ELSE Min(i, len)

slice(s, start, end) ==
    LET k == RelIndex(start, Len(s))
        f == RelIndex(end, Len(s))
    IN  IF k >= f THEN <<>> ELSE SubSeq(s, k + 1, f)

(***************************************************************************)
(* DataView.  A read outside the buffer throws RangeError; InView is the   *)
(* bounds test the accessors make.  Offsets are 0-based as in the source.  *)
(***************************************************************************)
InView(bytes, off, n) == off >= 0 /\ off + n <= Len(bytes)

getUint8(bytes, off) == bytes[off + 1]

getUint16LE(bytes, off) == bytes[off + 1] + 256 * bytes[off + 2]

getUint32LE(bytes, off) ==
    bytes[off + 1] + 256 * bytes[off + 2] + 65536 * bytes[off + 3]
        + 16777216 * bytes[off + 4]

Signed8(b) == IF b >= 128 THEN b - 256 ELSE b

\* getInt32(off): big-endian, two's complement
getInt32BE(bytes, off) ==
    16777216 * Signed8(bytes[off + 1]) + 65536 * bytes[off + 2]
        + 256 * bytes[off + 3] + bytes[off + 4]

\* getInt32(off, true): little-endian, two's complement
getInt32LE(bytes, off) ==
    16777216 * Signed8(bytes[off + 4]) + 65536 * bytes[off + 3]
        + 256 * bytes[off + 2] + bytes[off + 1]

\* getFloat64(off, true): sign bit, 11 exponent bits (bias 1023), 52 fraction
\* bits.  Only the four leading fraction bits may be set, and the value must
\* be an integer: value = (16 + frac4) * 2^(exp - 1027).
getFloat64LE(bytes, off) ==
    LET hi   == 256 * bytes[off + 8] + bytes[off + 7]
        neg  == hi >= 32768
        exp  == (hi % 32768) \div 16
        frac == hi % 16
        low0 == \A i \in 1..6 : bytes[off + i] = 0
        mag  == IF exp = 0 /\ frac = 0 THEN 0
                ELSE IF exp >= 1027 THEN (16 + frac) * Pow2(exp - 1027)
                ELSE (16 + frac) \div Pow2(1027 - exp)
        ok   == /\ low0
                /\ \/ exp = 0 /\ frac = 0
                   \/ /\ exp >= 1023 /\ exp <= 1031
                      /\ exp < 1027 => (16 + frac) % Pow2(1027 - exp) = 0
    IN  IF ok THEN (IF neg THEN -mag ELSE mag)
        ELSE CHOOSE v \in {} : TRUE     \* outside the modelled doubles

(***************************************************************************)
(* Encoders: how the input files below are written.  They are the inverse  *)
(* of the accessors on the values used and model no code of the parser.    *)
(***************************************************************************)
U32BE(v) ==
    LET u == IF v < 0 THEN v + 2147483647 + 1 ELSE v
        top == IF v < 0 THEN 128 ELSE 0
    IN  <<top + (u \div 16777216), (u \div 65536) % 256, (u \div 256) % 256, u % 256>>

U32LE(v) == Reverse(U32BE(v))

U16LE(v) == <<v % 256, v \div 256>>

RECURSIVE Log2(_)
Log2(n) == IF n <= 1 THEN 0 ELSE 1 + Log2(n \div 2)

F64LE(v) ==
    LET a   == Abs(v)
        e   == Log2(a)
        hi  == IF a = 0 THEN 0
               ELSE 16 * (1023 + e) + ((a * 16) \div Pow2(e)) - 16
        top == IF v < 0 THEN hi + 32768 ELSE hi
    IN  Zeros(6) \o <<top % 256, top \div 256>>

(***************************************************************************)
(* common.js: rings.  A point is <<x, y>>, a ring a sequence of points, a  *)
(* bbox <<w, s, e, n>>.                                                    *)
(***************************************************************************)
Ok(v) == [err |-> "none", val |-> v]

Throw(cls) == [err |-> cls, val |-> <<>>]

\* the minimum ring.length - 1 that ringClosed accepts is 3
ringClosed(ring) ==
    LET l == Len(ring) - 1
    IN  IF l <= 2 THEN Throw("TypeError")
        ELSE Ok(ring[1][1] = ring[l + 1][1] /\ ring[1][2] = ring[l + 1][2])

\* The shoelace sum over every point of the ring (the closing point
\* included); the source returns 0.5 * sum.
ringSum(ring) ==
    LET l == Len(ring)
        term(i) ==
            LET p == IF i > 0 THEN i - 1 ELSE l - 1
                n == IF i < l - 1 THEN i + 1 ELSE 0
            IN  ring[i + 1][2] * (ring[p + 1][1] - ring[n + 1][1])
    IN  SumSeq([i \in 1..l |-> term(i - 1)])

\* a variant that returns the area whatever it is
areaOfAny(sum) == Ok(sum)

\* if (sum == 0) throw ...; return 0.5 * sum
areaOf(sum) == IF sum = 0 THEN Throw("TypeError") ELSE Ok(sum)

ringArea(ring) == areaOf(ringSum(ring))

IsPow2(n) == \E k \in 0..16 : Pow2(k) = n

\* p[0] < ri[0] + vt * c with vt = a / d, decided exactly by
\* cross-multiplying.  The doubles agree with the exact value unless a / d
\* is rounded, c is not 0 and the intersection is an integer: such an edge
\* is outside the model.
leftOfEdge(p, ri, a, d, c) ==
    IF c = 0 \/ IsPow2(Abs(d)) \/ a % Abs(d) = 0 \/ (a * c) % Abs(d) # 0
    THEN IF d > 0 THEN (p[1] - ri[1]) * d < a * c
                  ELSE (p[1] - ri[1]) * d > a * c
    ELSE CHOOSE v \in {} : TRUE

\* one edge of insideRing: an upward or a downward crossing right of p
crosses(p, ri, rn) ==
    /\ \/ ri[2] <= p[2] /\ rn[2] > p[2]
       \/ ri[2] > p[2] /\ rn[2] <= p[2]
    /\ leftOfEdge(p, ri, p[2] - ri[2], rn[2] - ri[2], rn[1] - ri[1])

insideRing(p, ring) ==
    Cardinality({i \in 1..Len(ring) : crosses(p, ring[i], ring[(i % Len(ring)) + 1])})

bbox_intersection(b1, b2) ==
    IF b1[3] < b2[1] \/ b2[3] < b1[1] \/ b1[2] > b2[4] \/ b2[2] > b1[4]
    THEN <<>>
    ELSE <<Max(b1[1], b2[1]), Max(b1[2], b2[2]), Min(b1[3], b2[3]), Min(b1[4], b2[4])>>

RECURSIVE SeqMin(_)
SeqMin(s) == IF Len(s) = 1 THEN s[1] ELSE Min(s[1], SeqMin(Tail(s)))

RECURSIVE SeqMax(_)
SeqMax(s) == IF Len(s) = 1 THEN s[1] ELSE Max(s[1], SeqMax(Tail(s)))

\* bbox_of starts from +-MAX_SAFE_INTEGER, which no coordinate reaches
bbox_of(line) ==
    <<SeqMin([i \in 1..Len(line) |-> line[i][1]]), SeqMin([i \in 1..Len(line) |-> line[i][2]]),
      SeqMax([i \in 1..Len(line) |-> line[i][1]]), SeqMax([i \in 1..Len(line) |-> line[i][2]])>>

bbox_contains(b, p) == p[1] >= b[1] /\ p[1] <= b[3] /\ p[2] >= b[2] /\ p[2] <= b[4]

\* if (!bbox_contains(bb, p)) continue; const c = insideRing(p, other)
crossingIn(p, bb, other) == IF bbox_contains(bb, p) THEN insideRing(p, other) ELSE 0

nonzero(c) == IF c # 0 THEN <<c>> ELSE <<>>

\* The crossing numbers, in point order, of the points of pts that lie in bb
\* and have a nonzero crossing number against other: a loop of
\* ringIntersect returns on the first of them.
RECURSIVE hits(_, _, _)
hits(pts, bb, other) ==
    IF pts = <<>> THEN <<>>
    ELSE nonzero(crossingIn(Head(pts), bb, other)) \o hits(Tail(pts), bb, other)

\* return (c & 0x01) !== 0 on the first nonzero c of the first loop, else of
\* the second loop, else false
firstOdd(h1, h2) ==
    IF h1 # <<>> THEN h1[1] % 2 = 1
    ELSE IF h2 # <<>> THEN h2[1] % 2 = 1 ELSE FALSE

ringIntersectIn(bb, ring, hole) ==
    IF bb = <<>> THEN FALSE
    ELSE firstOdd(hits(hole, bb, ring), hits(ring, bb, hole))

\* a variant that takes every pair of rings to intersect
ringIntersectAlways(ring, b1, hole, b2) == TRUE

ringIntersect(ring, b1, hole, b2) == ringIntersectIn(bbox_intersection(b1, b2), ring, hole)

(***************************************************************************)
(* parseRecord, polygon branch.  The ring objects {ring, area, bbox,       *)
(* outer} live in one array rs (the sorted `rings`); `outers` and `inners` *)
(* hold indices into it and `outer` is an index, 0 for null, because the   *)
(* source's three arrays share the same objects.                           *)
(***************************************************************************)
\* if (!ringClosed(ring)) throw ...; const area = ringArea(ring);
\* rings.push({ring, area, bbox: bbox_of(ring), outer: null})
ringObject(ring, closed, area) ==
    IF closed.err # "none" THEN Throw(closed.err)
    ELSE IF ~closed.val THEN Throw("TypeError")
    ELSE IF area.err # "none" THEN Throw(area.err)
    ELSE Ok([ring |-> ring, area |-> area.val, bbox |-> bbox_of(ring), outer |-> 0])

pushRing(obj, rest) ==
    IF obj.err # "none" THEN Throw(obj.err)
    ELSE IF rest.err # "none" THEN rest
    ELSE Ok(<<obj.val>> \o rest.val)

\* for (const ring of lines) {...}
RECURSIVE ringObjects(_)
ringObjects(lines) ==
    IF lines = <<>> THEN Ok(<<>>)
    ELSE pushRing(ringObject(Head(lines), ringClosed(Head(lines)), ringArea(Head(lines))),
                  ringObjects(Tail(lines)))

\* rings.sort((r1, r2) => r1.area - r2.area): ascending and stable
RECURSIVE insertByArea(_, _)
insertByArea(sorted, r) ==
    IF sorted = <<>> THEN <<r>>
    ELSE IF Head(sorted).area <= r.area
         THEN <<Head(sorted)>> \o insertByArea(Tail(sorted), r)
         ELSE <<r>> \o sorted

RECURSIVE sortByArea(_)
sortByArea(rings) ==
    IF rings = <<>> THEN <<>>
    ELSE insertByArea(sortByArea(SubSeq(rings, 1, Len(rings) - 1)), rings[Len(rings)])

\* rings.filter(r => r.area < 0) when sign = -1, rings.filter(r => r.area > 0)
\* when sign = 1, as indices into rings from index i on
RECURSIVE filterBySign(_, _, _)
filterBySign(rs, sign, i) ==
    IF i > Len(rs) THEN <<>>
    ELSE (IF rs[i].area * sign > 0 THEN <<i>> ELSE <<>>) \o filterBySign(rs, sign, i + 1)

\* for (const outer of outers) { if (hole.area >= |outer.area|) continue;
\*     if (ringIntersect(...)) { hole.outer = outer; break } }
RECURSIVE findOuter(_, _, _)
findOuter(rs, h, cands) ==
    IF cands = <<>> THEN 0
    ELSE IF rs[h].area >= Abs(rs[Head(cands)].area) THEN findOuter(rs, h, Tail(cands))
    ELSE IF ringIntersect(rs[Head(cands)].ring, rs[Head(cands)].bbox, rs[h].ring, rs[h].bbox)
         THEN Head(cands)
         ELSE findOuter(rs, h, Tail(cands))

\* a variant that makes the hole an outer without turning it round
promoteAsIs(r) == [r EXCEPT !.area = -r.area]

\* what the source does to a hole no outer was found for
promote(r) == [r EXCEPT !.ring = Reverse(r.ring), !.area = -r.area]

\* for (const hole of inners) {...}: k is the position in inners, o the
\* outer found for inners[k] (0: none)
RECURSIVE matchHoles(_, _, _, _)
RECURSIVE matchHole(_, _, _, _, _)
matchHole(rs, outers, inners, k, o) ==
    IF o # 0
    THEN matchHoles([rs EXCEPT ![inners[k]].outer = o], outers, inners, k + 1)
    ELSE matchHoles([rs EXCEPT ![inners[k]] = promote(rs[inners[k]])],
                    Append(outers, inners[k]), [inners EXCEPT ![k] = 0], k + 1)

matchHoles(rs, outers, inners, k) ==
    IF k > Len(inners) THEN [rs |-> rs, outers |-> outers, inners |-> inners]
    ELSE matchHole(rs, outers, inners, k, findOuter(rs, inners[k], outers))

\* a variant that emits an outer as it stands
outerRingAsIs(r) == r.ring

\* r.ring = [r.ring.reverse()] for an outer
outerRing(r) == Reverse(r.ring)

\* h.outer.ring.push(h.ring.reverse()) for a matched hole
holeRing(r) == Reverse(r.ring)

\* for (const h of inners) if (h) h.outer.ring.push(h.ring.reverse()): the
\* holes pushed onto outer o, from position k of inners on
RECURSIVE holesOf(_, _, _)
holesOf(m, o, k) ==
    IF k > Len(m.inners) THEN <<>>
    ELSE (IF m.inners[k] # 0 /\ m.rs[m.inners[k]].outer = o
          THEN <<holeRing(m.rs[m.inners[k]])>> ELSE <<>>) \o holesOf(m, o, k + 1)

\* a variant that leaves the holes out
polygonRingsBare(m, o) == <<outerRing(m.rs[o])>>

\* the rings of the polygon of outer o: its exterior, then its holes
polygonRings(m, o) == <<outerRing(m.rs[o])>> \o holesOf(m, o, 1)

\* a variant that emits a MultiPolygon whatever the number of outers
polygonOfMulti(m) ==
    IF Len(m.outers) = 0 THEN Throw("TypeError")
    ELSE Ok([type |-> "MultiPolygon",
             coordinates |-> [i \in 1..Len(m.outers) |-> polygonRings(m, m.outers[i])]])

\* lines 663-676: the geometry of the matched rings
polygonOf(m) ==
    IF Len(m.outers) = 0 THEN Throw("TypeError")
    ELSE Ok([type |-> IF Len(m.outers) = 1 THEN "Polygon" ELSE "MultiPolygon",
             coordinates |->
                 IF Len(m.outers) = 1 THEN polygonRings(m, m.outers[1])
                 ELSE [i \in 1..Len(m.outers) |-> polygonRings(m, m.outers[i])]])

\* lines 641-662: sorted rings, their outers and inners, the holes matched
assemble(rings) ==
    matchHoles(rings, filterBySign(rings, -1, 1), filterBySign(rings, 1, 1), 1)

polygonFrom(objs) ==
    IF objs.err # "none" THEN Throw(objs.err)
    ELSE polygonOf(assemble(sortByArea(objs.val)))

\* lines 630-677: from the parts of a polygon record to its geometry
polygonGeometry(lines) == polygonFrom(ringObjects(lines))

(***************************************************************************)
(* common.js: the SHP header and record parsers.  A Feature is             *)
(* [bbox, geometry, properties]; an absent bbox is <<>>, a null geometry   *)
(* has type "null", null properties are NoProps.                           *)
(***************************************************************************)
\* let project = (x) => x: no projection string is given
project(p) == p

NoProps == [null |-> TRUE, row |-> <<>>]

NullGeometry == [type |-> "null", coordinates |-> <<>>]

Feature(bbox, geometry) == [bbox |-> bbox, geometry |-> geometry, properties |-> NoProps]

parseBBox(bytes, off) ==
    LET lo == project(<<getFloat64LE(bytes, off), getFloat64LE(bytes, off + 8)>>)
        hi == project(<<getFloat64LE(bytes, off + 16), getFloat64LE(bytes, off + 24)>>)
    IN  <<lo[1], lo[2], hi[1], hi[2]>>

\* the file code of a shapefile
Magic == 9994

\* a variant that takes any file code
parseHeaderAnyCode(bytes) ==
    Ok([bbox |-> parseBBox(bytes, 36), filesize |-> getInt32BE(bytes, 24) * 2])

parseHeader(bytes) ==
    IF getInt32BE(bytes, 0) # Magic THEN Throw("TypeError")
    ELSE Ok([bbox |-> parseBBox(bytes, 36), filesize |-> getInt32BE(bytes, 24) * 2])

readPoints(bytes, pos, n) ==
    [i \in 1..n |-> project(<<getFloat64LE(bytes, pos + 16 * (i - 1)),
                              getFloat64LE(bytes, pos + 16 * (i - 1) + 8)>>)]

\* lines[i] = points.slice(parts[i], i < nparts - 1 ? parts[i + 1] : npoints)
partLines(parts, points) ==
    [i \in 1..Len(parts) |->
        slice(points, parts[i], IF i < Len(parts) THEN parts[i + 1] ELSE Len(points))]

\* the Feature of case 5, or the error the ring checks threw
polygonFeature(bbox, g) == IF g.err # "none" THEN Throw(g.err) ELSE Ok(Feature(bbox, g.val))

polyFeature(type, bbox, lines) ==
    IF type = 3
    THEN Ok(Feature(bbox, [type |-> IF Len(lines) = 1 THEN "LineString" ELSE "MultiLineString",
                           coordinates |-> IF Len(lines) = 1 THEN lines[1] ELSE lines]))
    ELSE polygonFeature(bbox, polygonGeometry(lines))

parsePolyParts(bytes, offset, type, nparts, npoints) ==
    IF nparts < 0 \/ npoints < 0 THEN Throw("RangeError")
    ELSE IF ~InView(bytes, offset, 44 + 4 * nparts + 16 * npoints) THEN Throw("RangeError")
    ELSE polyFeature(type, parseBBox(bytes, offset + 4),
            partLines([i \in 1..nparts |-> getInt32LE(bytes, offset + 44 + 4 * (i - 1))],
                      readPoints(bytes, offset + 44 + 4 * nparts, npoints)))

\* cases 3 and 5.  Array(n) throws RangeError for a negative n, every read
\* past the end of the buffer throws RangeError; all reads come before the
\* ring checks.
parsePoly(bytes, offset, type) ==
    IF ~InView(bytes, offset, 44) THEN Throw("RangeError")
    ELSE parsePolyParts(bytes, offset, type,
                        getInt32LE(bytes, offset + 36), getInt32LE(bytes, offset + 40))

multiPoint(bytes, offset, num) ==
    IF num < 0 THEN Throw("RangeError")
    ELSE IF ~InView(bytes, offset, 40 + 16 * num) THEN Throw("RangeError")
    ELSE Ok(Feature(parseBBox(bytes, offset + 4),
                    [type |-> "MultiPoint",
                     coordinates |-> readPoints(bytes, offset + 40, num)]))

\* case 8
parseMultiPoint(bytes, offset) ==
    IF ~InView(bytes, offset, 40) THEN Throw("RangeError")
    ELSE multiPoint(bytes, offset, getInt32LE(bytes, offset + 36))

recordOfType(bytes, offset, type) ==
    CASE type = 0 -> Ok(Feature(<<>>, NullGeometry))
      [] type = 1 ->
           IF ~InView(bytes, offset, 20) THEN Throw("RangeError")
           ELSE Ok(Feature(<<>>,
                   [type |-> "Point",
                    coordinates |-> project(<<getFloat64LE(bytes, offset + 4),
                                              getFloat64LE(bytes, offset + 12)>>)]))
      [] type \in {3, 5} -> parsePoly(bytes, offset, type)
      [] type = 8 -> parseMultiPoint(bytes, offset)
      [] OTHER -> Throw("TypeError")

parseRecord(bytes, offset) ==
    IF ~InView(bytes, offset, 4) THEN Throw("RangeError")
    ELSE recordOfType(bytes, offset, getInt32LE(bytes, offset))

(***************************************************************************)
(* parser.js: SHPTransform.  The closure is one record; `out` is what the  *)
(* controller has been given (controller.enqueue), `err` the class of the  *)
(* error transform or flush threw.                                         *)
(***************************************************************************)
SHPHeaderLen == 100

RecHeaderLen == 8

SHPNew ==
    [buffer |-> <<>>, isNull |-> TRUE, offset |-> 0, needed |-> SHPHeaderLen,
     status |-> 0, filesize |-> 0, bbox |-> <<>>, out |-> <<>>, err |-> "none"]

\* a chunk is a Uint8Array: a view of `length` bytes, `byteOffset` bytes into
\* its ArrayBuffer `buffer`
Uint8Array(buffer, byteOffset, length) ==
    [buffer |-> buffer, byteOffset |-> byteOffset, length |-> length]

\* the elements of the view, as tmp.set(chunk, ...) copies them
elements(chunk) ==
    SubSeq(chunk.buffer, chunk.byteOffset + 1, chunk.byteOffset + chunk.length)

\* a chunk that owns its ArrayBuffer (fs.createReadStream delivers such)
Whole(bytes) == Uint8Array(bytes, 0, Len(bytes))

\* transform(), lines 230-239: the ArrayBuffer of the first chunk becomes the
\* buffer; a later chunk is appended to what the buffer holds from offset on
accumulate(st, chunk) ==
    IF st.isNull THEN [st EXCEPT !.buffer = chunk.buffer, !.isNull = FALSE]
    ELSE [st EXCEPT !.buffer = slice(st.buffer, st.offset, Len(st.buffer))
                                  \o elements(chunk),
                    !.offset = 0]

\* a variant that also returns when exactly `needed` bytes are buffered
starvedLate(st) == Len(st.buffer) - st.offset <= st.needed

\* if (buffer.byteLength - offset < needed) return
starved(st) == Len(st.buffer) - st.offset < st.needed

\* a variant that decodes the header without filling the caller's bbox
shpHeaderDoneNoSlot(st, header) ==
    IF header.err # "none" THEN [st EXCEPT !.err = header.err]
    ELSE [st EXCEPT !.filesize = header.val.filesize - SHPHeaderLen,
                    !.status = 1, !.offset = SHPHeaderLen, !.needed = RecHeaderLen]

\* status == 0
shpHeaderDone(st, header) ==
    IF header.err # "none" THEN [st EXCEPT !.err = header.err]
    ELSE [st EXCEPT !.bbox = header.val.bbox,
                    !.filesize = header.val.filesize - SHPHeaderLen,
                    !.status = 1, !.offset = SHPHeaderLen, !.needed = RecHeaderLen]

shpHeaderStep(st) == shpHeaderDone(st, parseHeader(st.buffer))

\* a variant that takes the content length as bytes, not 16-bit words
shpRecHeaderStepBytes(st) ==
    IF ~InView(st.buffer, st.offset + 4, 4) THEN [st EXCEPT !.err = "RangeError"]
    ELSE [st EXCEPT !.needed = getInt32BE(st.buffer, st.offset + 4),
                    !.offset = st.offset + RecHeaderLen,
                    !.filesize = st.filesize - RecHeaderLen,
                    !.status = 2]

\* a variant that leaves the record header out of the payload count
shpRecHeaderStepUncounted(st) ==
    IF ~InView(st.buffer, st.offset + 4, 4) THEN [st EXCEPT !.err = "RangeError"]
    ELSE [st EXCEPT !.needed = getInt32BE(st.buffer, st.offset + 4) * 2,
                    !.offset = st.offset + RecHeaderLen,
                    !.status = 2]

\* status == 1
shpRecHeaderStep(st) ==
    IF ~InView(st.buffer, st.offset + 4, 4) THEN [st EXCEPT !.err = "RangeError"]
    ELSE [st EXCEPT !.needed = getInt32BE(st.buffer, st.offset + 4) * 2,
                    !.offset = st.offset + RecHeaderLen,
                    !.filesize = st.filesize - RecHeaderLen,
                    !.status = 2]

\* a variant that passes over a record it cannot decode
shpRecBodySkip(st, rec) ==
    IF rec.err # "none"
    THEN [st EXCEPT !.offset = st.offset + st.needed, !.filesize = st.filesize - st.needed,
                    !.needed = RecHeaderLen, !.status = 1]
    ELSE [st EXCEPT !.out = Append(st.out, rec.val),
                    !.offset = st.offset + st.needed,
                    !.filesize = st.filesize - st.needed,
                    !.needed = RecHeaderLen, !.status = 1]

\* a variant that enqueues nothing for a record without geometry
shpRecBodyDropNull(st, rec) ==
    IF rec.err # "none" THEN [st EXCEPT !.err = rec.err]
    ELSE [st EXCEPT !.out = IF rec.val.geometry.type = "null" THEN st.out
                             ELSE Append(st.out, rec.val),
                    !.offset = st.offset + st.needed,
                    !.filesize = st.filesize - st.needed,
                    !.needed = RecHeaderLen, !.status = 1]

\* status == 2
shpRecBodyDone(st, rec) ==
    IF rec.err # "none" THEN [st EXCEPT !.err = rec.err]
    ELSE [st EXCEPT !.out = Append(st.out, rec.val),
                    !.offset = st.offset + st.needed,
                    !.filesize = st.filesize - st.needed,
                    !.needed = RecHeaderLen, !.status = 1]

shpRecBodyStep(st) == shpRecBodyDone(st, parseRecord(st.buffer, st.offset))

\* one turn of the while (true) loop whose guard has passed
shpStep(st) ==
    CASE st.status = 0 -> shpHeaderStep(st)
      [] st.status = 1 -> shpRecHeaderStep(st)
      [] st.status = 2 -> shpRecBodyStep(st)
      [] OTHER -> [st EXCEPT !.err = "Error"]

\* a variant of flush that accepts any remainder
shpFlushSilent(st) == st

\* flush()
shpFlush(st) == IF st.filesize # 0 THEN [st EXCEPT !.err = "TypeError"] ELSE st

\* transform(chunk, controller): accumulate, then loop until starved or thrown
RECURSIVE shpLoop(_)
shpLoop(st) == IF st.err # "none" \/ starved(st) THEN st ELSE shpLoop(shpStep(st))

shpTransform(st, chunk) == shpLoop(accumulate(st, chunk))

(***************************************************************************)
(* SHP input files.  A file is written from its record bodies; `recs` are  *)
(* the bodies a well-formed file holds, `wf` says whether the file is      *)
(* well-formed (valid header, declared length = actual length, every       *)
(* content length = body length, bodies that decode).                      *)
(***************************************************************************)
\* the envelope every header declares: wider than any record's own box
HeaderEnvelope == <<0, 0, 16, 12>>

HeaderBBox == [i \in 1..4 |-> F64LE(HeaderEnvelope[i])]

ShpHeaderBytes(magic, fileLen) ==
    U32BE(magic) \o Zeros(20) \o U32BE(fileLen \div 2) \o U32LE(1000) \o U32LE(5)
        \o Flatten(HeaderBBox) \o Zeros(32)

RecBytes(num, words, body) == U32BE(num) \o U32BE(words) \o body

NullBody == U32LE(0)

PointBody(x, y) == U32LE(1) \o F64LE(x) \o F64LE(y)

PointsBytes(pts) == Flatten([i \in 1..Len(pts) |-> F64LE(pts[i][1]) \o F64LE(pts[i][2])])

BBoxBytes(pts) ==
    LET b == bbox_of(pts) IN F64LE(b[1]) \o F64LE(b[2]) \o F64LE(b[3]) \o F64LE(b[4])

RECURSIVE PartStarts(_, _)
PartStarts(parts, at) ==
    IF parts = <<>> THEN <<>>
    ELSE U32LE(at) \o PartStarts(Tail(parts), at + Len(Head(parts)))

\* type 3 (polyline) or 5 (polygon) with the given parts
PolyBody(type, parts) ==
    LET pts == Flatten(parts)
    IN  U32LE(type) \o BBoxBytes(pts) \o U32LE(Len(parts)) \o U32LE(Len(pts))
            \o PartStarts(parts, 0) \o PointsBytes(pts)

MultiPointBody(pts) == U32LE(8) \o BBoxBytes(pts) \o U32LE(Len(pts)) \o PointsBytes(pts)

RecordsBytes(bodies) ==
    Flatten([i \in 1..Len(bodies) |-> RecBytes(i, Len(bodies[i]) \div 2, bodies[i])])

\* a file whose header declares `delta` bytes more than it holds
ShpBytes(bodies, delta) ==
    LET recs == RecordsBytes(bodies)
    IN  ShpHeaderBytes(Magic, SHPHeaderLen + Len(recs) + delta) \o recs

GoodShp(bodies) ==
    [bytes |-> ShpBytes(bodies, 0), recs |-> bodies, wf |-> TRUE,
     declared |-> SHPHeaderLen + Len(RecordsBytes(bodies))]

\* a file that is sound but for the types of some of its records
OddShp(bodies) ==
    [bytes |-> ShpBytes(bodies, 0), recs |-> bodies, wf |-> FALSE,
     declared |-> SHPHeaderLen + Len(RecordsBytes(bodies))]

\* type 11 (PointZ): x, y, z, m
PointZBody == U32LE(11) \o F64LE(1) \o F64LE(2) \o F64LE(3) \o F64LE(0)

\* type 25 (PolygonM) with no parts and no points
PolygonMBody == U32LE(25) \o Zeros(32) \o U32LE(0) \o U32LE(0) \o Zeros(16)

BadShp(bytes, declared) == [bytes |-> bytes, recs |-> <<>>, wf |-> FALSE, declared |-> declared]

\* clockwise (outer) and counter-clockwise (hole) triangles
TriOuter == <<<<0, 0>>, <<0, 8>>, <<8, 0>>, <<0, 0>>>>

TriHole == <<<<1, 1>>, <<2, 1>>, <<1, 2>>, <<1, 1>>>>

TriOpen == <<<<0, 0>>, <<0, 8>>, <<8, 0>>, <<0, 1>>>>

TwoPoints == <<PointBody(1, 2), NullBody>>

SHPFiles ==
    << GoodShp(<<>>),
       GoodShp(<<NullBody>>),
       GoodShp(<<PointBody(1, 2), PointBody(3, 4)>>),
       GoodShp(<<NullBody, PointBody(5, 6), NullBody>>),
       GoodShp(<<PolyBody(5, <<TriOuter>>)>>),
       GoodShp(<<PolyBody(3, <<SubSeq(TriOpen, 1, 2)>>), MultiPointBody(<<<<1, 1>>, <<2, 3>>>>)>>),
       GoodShp(<<PointBody(7, 7), PolyBody(5, <<TriHole, TriOuter>>)>>),
       \* not a shapefile
       BadShp(ShpHeaderBytes(9995, 112) \o RecBytes(1, 2, NullBody), 112),
       \* the header declares 8 bytes less than the file holds
       BadShp(ShpBytes(TwoPoints, -8), SHPHeaderLen + Len(RecordsBytes(TwoPoints)) - 8),
       \* the header declares a record more than the file holds
       BadShp(ShpBytes(TwoPoints, 12), SHPHeaderLen + Len(RecordsBytes(TwoPoints)) + 12),
       \* a record header that declares 2 words for a 20-byte point
       BadShp(ShpHeaderBytes(Magic, 128) \o RecBytes(1, 2, PointBody(1, 2)), 128),
       \* a PointZ record
       BadShp(ShpHeaderBytes(Magic, 128) \o RecBytes(1, 10, U32LE(11) \o Zeros(16)), 128),
       \* a polygon whose ring is not closed
       BadShp(ShpBytes(<<PointBody(1, 1), PolyBody(5, <<TriOpen>>)>>, 0), 248),
       \* the input ends inside the second record
       BadShp(SubSeq(ShpBytes(TwoPoints, 0), 1, 130), SHPHeaderLen + Len(RecordsBytes(TwoPoints))),
       \* three bytes follow the last declared record
       BadShp(ShpBytes(TwoPoints, 0) \o <<1, 2, 3>>, SHPHeaderLen + Len(RecordsBytes(TwoPoints))),
       \* the file code written little-endian
       BadShp(U32LE(Magic) \o SubSeq(ShpBytes(TwoPoints, 0), 5, Len(ShpBytes(TwoPoints, 0))),
              SHPHeaderLen + Len(RecordsBytes(TwoPoints))),
       \* a PointZ and a PolygonM record among points
       OddShp(<<PointBody(1, 1), PointZBody, PointBody(2, 2)>>),
       OddShp(<<NullBody, PointBody(3, 3), PolygonMBody, PointBody(4, 4)>>),
       \* the input ends one byte before the end of the file header
       BadShp(SubSeq(ShpBytes(TwoPoints, 0), 1, SHPHeaderLen - 1),
              SHPHeaderLen + Len(RecordsBytes(TwoPoints))),
       \* no input at all
       BadShp(<<>>, 0) >>

(***************************************************************************)
(* SHPTransform fed by a byte source: the source delivers the file in      *)
(* chunks of 1 byte, ChunkB bytes or all that is left, in any mix.         *)
(***************************************************************************)
ChunkB == 7

ChunkLens(left) == {k \in {1, ChunkB, left} : k >= 1 /\ k <= left}

\* a byte source: the file it reads, the bytes delivered so far, where the
\* stream is (idle: between two calls; loop: inside transform; closed; errored)
\* and which call threw
Source(f) == [file |-> f, pos |-> 0, pc |-> "idle", threw |-> "no"]

Unused == [file |-> 0, pos |-> 0, pc |-> "off", threw |-> "no"]

\* inputs no writer of shapefiles produces.  They are kept apart from
\* SHPFiles: the decoder does not come to an end on the first of them
HostileSHP ==
    << \* a record header that declares -4 words, then the type word 0
       ShpHeaderBytes(Magic, 112) \o U32BE(1) \o <<255, 255, 255, 252>> \o NullBody,
       \* a record header that declares 0 words, then a null record numbered 0
       ShpHeaderBytes(Magic, 120) \o RecBytes(1, 0, <<>>) \o RecBytes(0, 2, NullBody) >>

\* the Features enqueued in one run are counted up to MaxOut
MaxOut == 6

shpBytes ==
    IF shpIn.file > Len(SHPFiles) THEN HostileSHP[shpIn.file - Len(SHPFiles)]
    ELSE SHPFiles[shpIn.file].bytes

\* the stream calls transform with the next chunk
SHPWrite ==
    /\ shpIn.pc = "idle"
    /\ shpIn.pos < Len(shpBytes)
    /\ \E k \in ChunkLens(Len(shpBytes) - shpIn.pos) :
          /\ shp' = accumulate(shp, Whole(SubSeq(shpBytes, shpIn.pos + 1, shpIn.pos + k)))
          /\ shpIn' = [shpIn EXCEPT !.pos = shpIn.pos + k, !.pc = "loop"]
    /\ UNCHANGED <<dbf, dbfIn, gen, poly, cli>>

\* one turn of transform's loop
SHPLoopStep ==
    /\ shpIn.pc = "loop"
    /\ ~starved(shp)
    /\ Len(shp.out) < MaxOut
    /\ shp' = shpStep(shp)
    /\ shpIn' = IF shp'.err # "none"
                THEN [shpIn EXCEPT !.pc = "errored", !.threw = "transform"]
                ELSE shpIn
    /\ UNCHANGED <<dbf, dbfIn, gen, poly, cli>>

\* transform returns: the next chunk may come
SHPLoopReturn ==
    /\ shpIn.pc = "loop"
    /\ starved(shp)
    /\ shpIn' = [shpIn EXCEPT !.pc = "idle"]
    /\ UNCHANGED <<shp, dbf, dbfIn, gen, poly, cli>>

\* the source is exhausted: the stream calls flush
SHPFlush ==
    /\ shpIn.pc = "idle"
    /\ shpIn.pos = Len(shpBytes)
    /\ shp' = shpFlush(shp)
    /\ shpIn' = IF shp'.err # "none"
                THEN [shpIn EXCEPT !.pc = "errored", !.threw = "flush"]
                ELSE [shpIn EXCEPT !.pc = "closed"]
    /\ UNCHANGED <<dbf, dbfIn, gen, poly, cli>>

InitSHP ==
    /\ shp = SHPNew
    /\ shpIn \in {Source(f) : f \in 1..Len(SHPFiles)}
    /\ dbf = <<>> /\ dbfIn = Unused /\ gen = <<>> /\ poly = <<>> /\ cli = <<>>

NextSHP == SHPWrite \/ SHPLoopStep \/ SHPLoopReturn \/ SHPFlush

SpecSHP == InitSHP /\ [][NextSHP]_vars

(***************************************************************************)
(* common.js: the DBF parsers.  A field is [name, type, size] with type    *)
(* the character code of the type tag; a row is the sequence of its        *)
(* [name, value] pairs in insertion order (property names that look like   *)
(* array indices, which an object would order first, are outside the       *)
(* model); a value is tagged: a string, a number, NaN, a boolean or null.  *)
(***************************************************************************)
Str(chars) == [t |-> "str", s |-> chars, n |-> 0]

Num(k) == [t |-> "num", s |-> <<>>, n |-> k]

Bool(b) == [t |-> IF b THEN "true" ELSE "false", s |-> <<>>, n |-> 0]

NullValue == [t |-> "null", s |-> <<>>, n |-> 0]

NaN == [t |-> "NaN", s |-> <<>>, n |-> 0]

\* the white space String.prototype.trim removes, among the latin1 codes
WhiteSpace == {9, 10, 11, 12, 13, 32, 160}

RECURSIVE trimStart(_)
trimStart(str) ==
    IF str # <<>> /\ Head(str) \in WhiteSpace THEN trimStart(Tail(str)) ELSE str

RECURSIVE trimEnd(_)
trimEnd(str) ==
    IF str # <<>> /\ str[Len(str)] \in WhiteSpace
    THEN trimEnd(SubSeq(str, 1, Len(str) - 1)) ELSE str

trim(str) == trimEnd(trimStart(str))

\* while (--l >= 0 && str.charCodeAt(l) == 0); str.substring(0, l + 1)
RECURSIVE stripNuls(_)
stripNuls(str) ==
    IF str # <<>> /\ str[Len(str)] = 0 THEN stripNuls(SubSeq(str, 1, Len(str) - 1)) ELSE str

toLowerCase(str) == [i \in 1..Len(str) |-> IF str[i] \in 65..90 THEN str[i] + 32 ELSE str[i]]

\* .replace(/\0.*$/, ''): `.` stops at a line terminator and `$` is the end
\* of the string, so the match starts at the first NUL after the last line
\* terminator
cutFrom(str, lastLT) ==
    IF \E i \in (lastLT + 1)..Len(str) : str[i] = 0
    THEN SubSeq(str, 1, (CHOOSE i \in (lastLT + 1)..Len(str) :
                            str[i] = 0 /\ \A j \in (lastLT + 1)..(i - 1) : str[j] # 0) - 1)
    ELSE str

cutAtNul(str) ==
    cutFrom(str, IF \E i \in 1..Len(str) : str[i] \in {10, 13}
                 THEN CHOOSE i \in 1..Len(str) :
                        str[i] \in {10, 13} /\ \A j \in (i + 1)..Len(str) : str[j] \notin {10, 13}
                 ELSE 0)

Digits == 48..57

RECURSIVE decimal(_)
decimal(ds) == IF ds = <<>> THEN 0 ELSE 10 * decimal(SubSeq(ds, 1, Len(ds) - 1)) + (ds[Len(ds)] - 48)

IsDigits(str) == str # <<>> /\ \A i \in 1..Len(str) : str[i] \in Digits

\* the characters a numeric literal of Number() can hold: digits, sign, point,
\* exponent, the 0x/0o/0b prefixes and hex digits, Infinity
LiteralChars ==
    Digits \cup {43, 45, 46} \cup {65, 66, 67, 68, 69, 70, 97, 98, 99, 100, 101, 102}
           \cup {88, 120, 79, 111, 73, 110, 105, 116, 121}

\* Number(str) for a trimmed, nonempty str: a signed run of digits is that
\* integer, a string with a character no literal can hold is NaN; any other
\* literal (a fraction, an exponent, hex) is outside the model
Number(str) ==
    IF IsDigits(str) THEN Num(decimal(str))
    ELSE IF Head(str) = 45 /\ IsDigits(Tail(str)) THEN Num(-decimal(Tail(str)))
    ELSE IF Head(str) = 43 /\ IsDigits(Tail(str)) THEN Num(decimal(Tail(str)))
    ELSE IF \E i \in 1..Len(str) : str[i] \notin LiteralChars THEN NaN
    ELSE CHOOSE v \in {} : TRUE

DbfVersion == 3

dbfHeader(bytes) ==
    IF getUint8(bytes, 0) % 8 # DbfVersion THEN Throw("TypeError")
    ELSE IF getUint8(bytes, 15) # 0 THEN Throw("TypeError")
    ELSE Ok([numrec |-> getUint32LE(bytes, 4), reclen |-> getUint16LE(bytes, 10)])

\* the byte that ends the field descriptor array
Terminator == 13

NameLen == 11

\* dbfField: null (here: type 0, empty name) at the terminator
NoField == [name |-> <<>>, type |-> 0, size |-> 0]

dbfField(bytes, pos) ==
    IF getUint8(bytes, pos) = Terminator THEN NoField
    ELSE [name |-> cutAtNul(trim(SubSeq(bytes, pos + 1, pos + NameLen))),
          type |-> getUint8(bytes, pos + 11),
          size |-> getUint8(bytes, pos + 16)]

\* case 'N': case 'F'
numberValue(str) == IF str = <<>> THEN NullValue ELSE Number(str)

\* case 'L'
logicalValue(str) ==
    IF str \in {<<121>>, <<116>>} THEN Bool(TRUE)
    ELSE IF str \in {<<110>>, <<102>>} THEN Bool(FALSE)
    ELSE NullValue

\* a variant that reads a column of any type as text
columnValueAsText(type, col) == Ok(Str(trim(col)))

\* the switch of dbfRecord on the type tag: 'C' 67, 'D' 68, 'N' 78, 'F' 70, 'L' 76
columnValue(type, col) ==
    CASE type = 67 -> Ok(Str(stripNuls(trim(col))))
      [] type = 68 -> Ok(Str(trim(col)))
      [] type \in {78, 70} -> Ok(numberValue(trim(col)))
      [] type = 76 -> Ok(logicalValue(trim(toLowerCase(col))))
      [] OTHER -> Throw("TypeError")

\* row[name] = value: a new property goes last, an old one keeps its place
assign(row, name, value) ==
    IF \E i \in 1..Len(row) : row[i].name = name
    THEN [i \in 1..Len(row) |-> IF row[i].name = name THEN [name |-> name, value |-> value]
                                                      ELSE row[i]]
    ELSE Append(row, [name |-> name, value |-> value])

\* new DataView(buffer, byteOffset, length) throws RangeError unless
\* byteOffset + length <= buffer.byteLength
RECURSIVE dbfColumns(_, _, _, _, _)
RECURSIVE dbfColumn(_, _, _, _, _, _)
dbfColumn(bytes, base, fields, pos, row, v) ==
    IF v.err # "none" THEN Throw(v.err)
    ELSE dbfColumns(bytes, base, Tail(fields), pos + Head(fields).size,
                    assign(row, Head(fields).name, v.val))

\* for (const {name, type, size} of fields) {...}: rec starts at base
dbfColumns(bytes, base, fields, pos, row) ==
    IF fields = <<>> THEN Ok(row)
    ELSE IF ~InView(bytes, base + pos + 1, Head(fields).size) THEN Throw("RangeError")
    ELSE dbfColumn(bytes, base, fields, pos, row,
            columnValue(Head(fields).type,
                        SubSeq(bytes, base + pos + 2, base + pos + 1 + Head(fields).size)))

\* dbfRecord(rec, fields, decoder) with rec = DataView(bytes, base, reclen)
dbfRecord(bytes, base, fields) == dbfColumns(bytes, base, fields, 0, <<>>)

(***************************************************************************)
(* parser.js: DBFTransform.                                                *)
(***************************************************************************)
DBFHeaderLen == 32

FieldLen == 32

Deleted == 42

Active == 32

DBFNew ==
    [buffer |-> <<>>, isNull |-> TRUE, offset |-> 0, needed |-> DBFHeaderLen,
     status |-> 0, numrec |-> 0, reclen |-> 0, fields |-> <<>>,
     out |-> <<>>, err |-> "none"]

\* transform(), lines 304-313: as in SHPTransform, but the new buffer is
\* sized by chunk.buffer.byteLength; what the chunk does not fill stays 0
dbfAccumulate(st, chunk) ==
    IF st.isNull THEN [st EXCEPT !.buffer = chunk.buffer, !.isNull = FALSE]
    ELSE [st EXCEPT !.buffer = slice(st.buffer, st.offset, Len(st.buffer))
                                  \o elements(chunk)
                                  \o Zeros(Len(chunk.buffer) - chunk.length),
                    !.offset = 0]

\* status == 0
dbfHeaderDone(st, header) ==
    IF header.err # "none" THEN [st EXCEPT !.err = header.err]
    ELSE [st EXCEPT !.numrec = header.val.numrec, !.reclen = header.val.reclen,
                    !.offset = DBFHeaderLen, !.needed = FieldLen, !.status = 1]

dbfHeaderStep(st) == dbfHeaderDone(st, dbfHeader(st.buffer))

\* status == 1
dbfFieldDone(st, field) ==
    IF field = NoField
    THEN [st EXCEPT !.status = 2, !.needed = st.reclen, !.offset = st.offset + 1]
    ELSE [st EXCEPT !.fields = Append(st.fields, field), !.offset = st.offset + st.needed]

dbfFieldStep(st) == dbfFieldDone(st, dbfField(st.buffer, st.offset))

\* status == 2, flag == 0x20
dbfRowDone(st, row) ==
    IF row.err # "none" THEN [st EXCEPT !.err = row.err]
    ELSE [st EXCEPT !.out = Append(st.out, row.val),
                    !.offset = st.offset + st.needed, !.numrec = st.numrec - 1]

\* a variant that passes over a deleted row without counting it
dbfSkipRowUncounted(st) == [st EXCEPT !.offset = st.offset + st.needed]

\* status == 2, flag == 0x2a
dbfSkipRow(st) == [st EXCEPT !.offset = st.offset + st.needed, !.numrec = st.numrec - 1]

\* status == 2; rec.getUint8(0) throws RangeError on a view of length 0
dbfRowStep(st) ==
    IF st.reclen = 0 THEN [st EXCEPT !.err = "RangeError"]
    ELSE IF getUint8(st.buffer, st.offset) = Deleted THEN dbfSkipRow(st)
    ELSE IF getUint8(st.buffer, st.offset) # Active THEN [st EXCEPT !.err = "TypeError"]
    ELSE dbfRowDone(st, dbfRecord(st.buffer, st.offset, st.fields))

\* one turn of the while (true) loop whose guard has passed
dbfStep(st) ==
    CASE st.status = 0 -> dbfHeaderStep(st)
      [] st.status = 1 -> dbfFieldStep(st)
      [] st.status = 2 -> dbfRowStep(st)

\* a variant of flush that accepts any count
dbfFlushSilent(st) == st

\* flush()
dbfFlush(st) == IF st.numrec # 0 THEN [st EXCEPT !.err = "TypeError"] ELSE st

RECURSIVE dbfLoop(_)
dbfLoop(st) == IF st.err # "none" \/ starved(st) THEN st ELSE dbfLoop(dbfStep(st))

\* transform(chunk, controller)
dbfTransform(st, chunk) == dbfLoop(dbfAccumulate(st, chunk))

(***************************************************************************)
(* DBF input files.  A table is described by its fields, its rows (a flag  *)
(* and one column of bytes per field) and what follows the last row.       *)
(***************************************************************************)
DbfHeaderBytes(version, numrec, hdrlen, reclen, encrypted) ==
    <<version, 126, 11, 2>> \o U32LE(numrec) \o U16LE(hdrlen) \o U16LE(reclen)
        \o Zeros(3) \o <<encrypted>> \o Zeros(16)

FieldBytes(f) ==
    f.name \o Zeros(NameLen - Len(f.name)) \o <<f.type>> \o Zeros(4) \o <<f.size, 0>>
        \o Zeros(14)

RowBytes(row) == <<row.flag>> \o Flatten(row.cols)

RowsBytes(rows) == Flatten([i \in 1..Len(rows) |-> RowBytes(rows[i])])

FieldsBytes(fields) == Flatten([i \in 1..Len(fields) |-> FieldBytes(fields[i])])

DbfBytes(version, numrec, reclen, encrypted, fields, rows, tail) ==
    DbfHeaderBytes(version, numrec, DBFHeaderLen + FieldLen * Len(fields) + 1, reclen, encrypted)
        \o FieldsBytes(fields) \o <<Terminator>> \o RowsBytes(rows) \o tail

RowLen(fields) == 1 + SumSeq([i \in 1..Len(fields) |-> fields[i].size])

\* a table whose header tells the truth about its rows
GoodDbf(fields, rows, tail) ==
    [bytes |-> DbfBytes(DbfVersion, Len(rows), RowLen(fields), 0, fields, rows, tail),
     fields |-> fields, rows |-> rows, declared |-> Len(rows), wf |-> TRUE,
     consistent |-> TRUE]

\* a table that is off in its header, a flag or a field type
BadDbf(version, numrec, reclen, encrypted, fields, rows, tail) ==
    [bytes |-> DbfBytes(version, numrec, reclen, encrypted, fields, rows, tail),
     fields |-> fields, rows |-> rows, declared |-> numrec, wf |-> FALSE,
     consistent |-> reclen = RowLen(fields)]

Field(name, type, size) == [name |-> name, type |-> type, size |-> size]

Row(flag, cols) == [flag |-> flag, cols |-> cols]

EOFMark == <<26>>

\* A: C(3)
OneField == <<Field(<<65>>, 67, 3)>>

\* NAME: C(3), N: N(2)
TwoFields == <<Field(<<78, 65, 77, 69>>, 67, 3), Field(<<78>>, 78, 2)>>

\* T: C(20), L: L(1), D: D(8)
WideFields == <<Field(<<84>>, 67, 20), Field(<<76>>, 76, 1), Field(<<68>>, 68, 8)>>

\* X: X(3), a type dbfRecord does not know
OddFields == <<Field(<<88>>, 88, 3), Field(<<78>>, 78, 2)>>

ShortRows ==
    <<Row(Active, <<<<97, 98, 99>>>>), Row(Deleted, <<<<120, 121, 122>>>>),
      Row(Active, <<<<100, 32, 32>>>>)>>

SixRows ==
    <<Row(Active,  <<<<97, 98, 32>>, <<49, 50>>>>),
      Row(Deleted, <<<<120, 120, 120>>, <<57, 57>>>>),
      Row(Active,  <<<<32, 99, 0>>, <<32, 55>>>>),
      Row(Deleted, <<<<121, 121, 121>>, <<56, 56>>>>),
      Row(Active,  <<<<81, 32, 32>>, <<32, 32>>>>),
      Row(Active,  <<<<120, 121, 122>>, <<45, 51>>>>)>>

WideRows ==
    <<Row(Active, <<<<104, 105>> \o [i \in 1..18 |-> 32], <<84>>,
                    <<50, 48, 50, 52, 48, 49, 51, 49>>>>),
      Row(Active, <<[i \in 1..20 |-> 32], <<63>>, [i \in 1..8 |-> 32]>>)>>

BadFlagRows == [SixRows EXCEPT ![3] = Row(65, SixRows[3].cols)]

\* rows of four bytes for a table whose fields need six
NarrowRows == [i \in 1..9 |-> <<Active, 49, 50, 51>>]

\* N: N(2), F: F(3)
NumFields == <<Field(<<78>>, 78, 2), Field(<<70>>, 70, 3)>>

\* numbers, blanks and contents that are no numbers: "zz", "1? ", "7 7", "Q  "
NumRows ==
    <<Row(Active,  <<<<49, 50>>, <<32, 55, 32>>>>),
      Row(Active,  <<<<32, 32>>, <<32, 32, 32>>>>),
      Row(Active,  <<<<122, 122>>, <<45, 51, 32>>>>),
      Row(Deleted, <<<<57, 57>>, <<57, 57, 57>>>>),
      Row(Active,  <<<<45, 53>>, <<49, 63, 32>>>>),
      Row(Active,  <<<<32, 48>>, <<55, 32, 55>>>>),
      Row(Active,  <<<<57, 32>>, <<81, 32, 32>>>>)>>

AllDeleted == [i \in 1..Len(SixRows) |-> Row(Deleted, SixRows[i].cols)]

DeletedFirst == [SixRows EXCEPT ![1] = Row(Deleted, SixRows[1].cols)]

DBFFiles ==
    << GoodDbf(OneField, <<>>, EOFMark),
       GoodDbf(OneField, ShortRows, EOFMark),
       GoodDbf(TwoFields, SixRows, EOFMark),
       GoodDbf(TwoFields, SixRows, <<>>),
       GoodDbf(WideFields, WideRows, EOFMark),
       BadDbf(DbfVersion, Len(BadFlagRows), RowLen(TwoFields), 0, TwoFields, BadFlagRows, EOFMark),
       BadDbf(DbfVersion, Len(SixRows) + 1, RowLen(TwoFields), 0, TwoFields, SixRows, EOFMark),
       BadDbf(DbfVersion + 1, Len(SixRows), RowLen(TwoFields), 0, TwoFields, SixRows, EOFMark),
       BadDbf(DbfVersion, Len(SixRows), RowLen(OddFields), 0, OddFields, SixRows, EOFMark),
       BadDbf(DbfVersion, Len(SixRows), RowLen(TwoFields), 1, TwoFields, SixRows, EOFMark),
       BadDbf(DbfVersion, Len(NarrowRows), 4, 0, TwoFields, <<>>, Flatten(NarrowRows) \o EOFMark),
       GoodDbf(NumFields, NumRows, EOFMark),
       BadDbf(DbfVersion, 0, RowLen(OddFields), 0, OddFields, <<>>, EOFMark),
       BadDbf(DbfVersion, Len(AllDeleted), RowLen(OddFields), 0, OddFields, AllDeleted, EOFMark),
       BadDbf(DbfVersion, Len(DeletedFirst), RowLen(OddFields), 0, OddFields, DeletedFirst, EOFMark),
       BadDbf(DbfVersion, Len(SixRows) - 1, RowLen(TwoFields), 0, TwoFields, SixRows, EOFMark),
       \* the input ends one byte before the end of the table header
       [BadDbf(DbfVersion, Len(SixRows), RowLen(TwoFields), 0, TwoFields, SixRows, EOFMark)
           EXCEPT !.bytes = SubSeq(@, 1, DBFHeaderLen - 1)],
       \* no input at all
       [BadDbf(DbfVersion, 0, RowLen(TwoFields), 0, TwoFields, <<>>, EOFMark)
           EXCEPT !.bytes = <<>>] >>

(***************************************************************************)
(* SpecDBF: DBFTransform fed one of the tables in chunks of any of the     *)
(* lengths ChunkLens allows.  The source also counts the rows the loop     *)
(* passed over as deleted.                                                 *)
(***************************************************************************)
DBFSource(f) == [file |-> f, pos |-> 0, pc |-> "idle", threw |-> "no", skipped |-> 0]

ZeroLenDbf ==
    DbfBytes(DbfVersion, 1, 0, 0, OneField, <<Row(Active, <<<<97, 98, 99>>>>)>>, EOFMark)

\* tables whose header declares a record length of 0: whole, and cut off
\* inside the field descriptor
HostileDBF == <<ZeroLenDbf, SubSeq(ZeroLenDbf, 1, DBFHeaderLen + NameLen)>>

dbfBytes ==
    IF dbfIn.file > Len(DBFFiles) THEN HostileDBF[dbfIn.file - Len(DBFFiles)]
    ELSE DBFFiles[dbfIn.file].bytes

atDeleted(st) ==
    st.status = 2 /\ st.reclen > 0 /\ getUint8(st.buffer, st.offset) = Deleted

\* the stream calls transform with the next chunk
DBFWrite ==
    /\ dbfIn.pc = "idle"
    /\ dbfIn.pos < Len(dbfBytes)
    /\ \E k \in ChunkLens(Len(dbfBytes) - dbfIn.pos) :
          /\ dbf' = dbfAccumulate(dbf, Whole(SubSeq(dbfBytes, dbfIn.pos + 1, dbfIn.pos + k)))
          /\ dbfIn' = [dbfIn EXCEPT !.pos = dbfIn.pos + k, !.pc = "loop"]
    /\ UNCHANGED <<shp, shpIn, gen, poly, cli>>

\* one turn of transform's loop
DBFLoopStep ==
    /\ dbfIn.pc = "loop"
    /\ ~starved(dbf)
    /\ dbf' = dbfStep(dbf)
    /\ dbfIn' = IF dbf'.err # "none"
                THEN [dbfIn EXCEPT !.pc = "errored", !.threw = "transform"]
                ELSE IF atDeleted(dbf)
                THEN [dbfIn EXCEPT !.skipped = dbfIn.skipped + 1]
                ELSE dbfIn
    /\ UNCHANGED <<shp, shpIn, gen, poly, cli>>

\* transform returns: the next chunk may come
DBFLoopReturn ==
    /\ dbfIn.pc = "loop"
    /\ starved(dbf)
    /\ dbfIn' = [dbfIn EXCEPT !.pc = "idle"]
    /\ UNCHANGED <<shp, shpIn, dbf, gen, poly, cli>>

\* the source is exhausted: the stream calls flush
DBFFlush ==
    /\ dbfIn.pc = "idle"
    /\ dbfIn.pos = Len(dbfBytes)
    /\ dbf' = dbfFlush(dbf)
    /\ dbfIn' = IF dbf'.err # "none"
                THEN [dbfIn EXCEPT !.pc = "errored", !.threw = "flush"]
                ELSE [dbfIn EXCEPT !.pc = "closed"]
    /\ UNCHANGED <<shp, shpIn, gen, poly, cli>>

InitDBF ==
    /\ dbf = DBFNew
    /\ dbfIn \in {DBFSource(f) : f \in 1..Len(DBFFiles)}
    /\ shp = <<>> /\ shpIn = Unused /\ gen = <<>> /\ poly = <<>> /\ cli = <<>>

NextDBF == DBFWrite \/ DBFLoopStep \/ DBFLoopReturn \/ DBFFlush

SpecDBF == InitDBF /\ [][NextDBF]_vars

(***************************************************************************)
(* SpecCodecs: either decoder, fed as under SpecSHP or SpecDBF.            *)
(***************************************************************************)
InitCodecs == InitSHP \/ InitDBF

NextCodecs == NextSHP \/ NextDBF

SpecCodecs == InitCodecs /\ [][NextCodecs]_vars

(***************************************************************************)
(* SpecHostile: either decoder, fed one of the hostile inputs.             *)
(***************************************************************************)
InitHostile ==
    \/ /\ shp = SHPNew
       /\ shpIn \in {Source(Len(SHPFiles) + i) : i \in 1..Len(HostileSHP)}
       /\ dbf = <<>> /\ dbfIn = Unused /\ gen = <<>> /\ poly = <<>> /\ cli = <<>>
    \/ /\ dbf = DBFNew
       /\ dbfIn \in {DBFSource(Len(DBFFiles) + i) : i \in 1..Len(HostileDBF)}
       /\ shp = <<>> /\ shpIn = Unused /\ gen = <<>> /\ poly = <<>> /\ cli = <<>>

SpecHostile == InitHostile /\ [][NextCodecs]_vars

(***************************************************************************)
(* SpecView: either decoder over a well-formed file, fed by a source whose *)
(* chunks are views into larger ArrayBuffers: Slack bytes (zeros here) may *)
(* lie before and after the view.  The source delivers the first           *)
(* SHPHeaderLen bytes or all that is left.                                  *)
(***************************************************************************)
Slack == 2

Slacks == {0, Slack}

ViewLens(left) == {k \in {SHPHeaderLen, left} : k >= 1 /\ k <= left}

View(bytes, before, after) ==
    Uint8Array(Zeros(before) \o bytes \o Zeros(after), before, Len(bytes))

ViewSHPWrite ==
    /\ shpIn.pc = "idle"
    /\ shpIn.pos < Len(shpBytes)
    /\ \E k \in ViewLens(Len(shpBytes) - shpIn.pos), b \in Slacks, a \in Slacks :
          /\ shp' = accumulate(shp, View(SubSeq(shpBytes, shpIn.pos + 1, shpIn.pos + k), b, a))
          /\ shpIn' = [shpIn EXCEPT !.pos = shpIn.pos + k, !.pc = "loop"]
    /\ UNCHANGED <<dbf, dbfIn, gen, poly, cli>>

ViewDBFWrite ==
    /\ dbfIn.pc = "idle"
    /\ dbfIn.pos < Len(dbfBytes)
    /\ \E k \in ViewLens(Len(dbfBytes) - dbfIn.pos), b \in Slacks, a \in Slacks :
          /\ dbf' = dbfAccumulate(dbf, View(SubSeq(dbfBytes, dbfIn.pos + 1, dbfIn.pos + k), b, a))
          /\ dbfIn' = [dbfIn EXCEPT !.pos = dbfIn.pos + k, !.pc = "loop"]
    /\ UNCHANGED <<shp, shpIn, gen, poly, cli>>

InitView ==
    \/ InitSHP /\ SHPFiles[shpIn.file].wf
    \/ InitDBF /\ DBFFiles[dbfIn.file].wf

NextView ==
    \/ ViewSHPWrite \/ SHPLoopStep \/ SHPLoopReturn \/ SHPFlush
    \/ ViewDBFWrite \/ DBFLoopStep \/ DBFLoopReturn \/ DBFFlush

SpecView == InitView /\ [][NextView]_vars

(***************************************************************************)
(* parser.js: stitch.  A stream is the sequence of the items it has yet to *)
(* deliver and ends without error; a read result is {done, value}.         *)
(***************************************************************************)
\* reader.read(): the result
read(stream) ==
    IF stream = <<>> THEN [done |-> TRUE, value |-> <<>>]
    ELSE [done |-> FALSE, value |-> Head(stream)]

\* reader.read(): what is left in the stream
rest(stream) == IF stream = <<>> THEN <<>> ELSE Tail(stream)

\* a variant that leaves the feature as it was read
withoutProperties(feature, row) == feature

\* feature.properties = prop.value
withProperties(feature, row) ==
    [feature EXCEPT !.properties = [null |-> FALSE, row |-> row]]

\* a variant that ends quietly as soon as either stream has ended
outcomeLenient(feat, prop) == IF feat.done \/ prop.done THEN "break" ELSE "yield"

\* lines 377-385: what the loop does with the two read results
outcome(feat, prop) ==
    IF feat.done /\ prop.done THEN "break"
    ELSE IF feat.done THEN "stitch: not enough feature records."
    ELSE IF prop.done THEN "stitch: not enough dbf records."
    ELSE "yield"

NoRead == [done |-> FALSE, value |-> <<>>]

\* the generator before its first next(): isShp and isDbf tell whether the
\* arguments are ReadableStreams; shpLock and dbfLock tell whether a stream
\* is "free", "locked" to a reader or "cancelled"
StitchNew(isShp, isDbf, features, rows) ==
    [pc |-> "start", isShp |-> isShp, isDbf |-> isDbf,
     shp |-> features, dbf |-> rows, feat |-> NoRead, prop |-> NoRead,
     shpReads |-> 0, dbfReads |-> 0, yielded |-> <<>>, err |-> "none", msg |-> "",
     shpLock |-> "free", dbfLock |-> "free"]

\* a variant that checks the first argument only
argCheckFirst(isShp, isDbf) == IF ~isShp THEN "stitch: first arg: not a ReadableStream" ELSE ""

\* lines 368-371: the message of the TypeError the argument checks throw
argCheck(isShp, isDbf) ==
    IF ~isShp THEN "stitch: first arg: not a ReadableStream"
    ELSE IF ~isDbf THEN "stitch: second arg: not a ReadableStream"
    ELSE ""

\* lines 372-373: shp.getReader(), dbf.getReader()
getReaders(g) == [g EXCEPT !.shpLock = "locked", !.dbfLock = "locked", !.pc = "readShp"]

\* the consumer leaves its loop: return() ends a generator that is suspended
\* at its start or at the yield; stitch has no finally block, so nothing
\* else runs
return(g) == [g EXCEPT !.pc = "stopped"]

(***************************************************************************)
(* SpecStitch: stitch over a stream of n Features and a stream of m rows,  *)
(* driven by a consumer that calls next() after every yield.               *)
(***************************************************************************)
MaxItems == 3

FeatureNo(k) ==
    Feature(<<>>, [type |-> "Point", coordinates |-> <<k, 2 * k>>])

RowNo(k) == <<[name |-> <<78>>, value |-> Num(k)]>>

Features(n) == [k \in 1..n |-> FeatureNo(k)]

Rows(m) == [k \in 1..m |-> RowNo(k)]

\* next(): on the first call the argument checks and the readers, then on
\* to the reads
StitchNext ==
    /\ gen.pc \in {"start", "yielded"}
    /\ gen' = IF gen.pc = "yielded" THEN [gen EXCEPT !.pc = "readShp"]
              ELSE IF argCheck(gen.isShp, gen.isDbf) # ""
              THEN [gen EXCEPT !.pc = "threw", !.err = "TypeError",
                               !.msg = argCheck(gen.isShp, gen.isDbf)]
              ELSE getReaders(gen)
    /\ UNCHANGED <<shp, shpIn, dbf, dbfIn, poly, cli>>

\* the consumer stops iterating (break in for await): return()
StitchReturn ==
    /\ gen.pc \in {"start", "yielded"}
    /\ gen' = return(gen)
    /\ UNCHANGED <<shp, shpIn, dbf, dbfIn, poly, cli>>

\* const feat = await shp_reader.read()
StitchReadShp ==
    /\ gen.pc = "readShp"
    /\ gen' = [gen EXCEPT !.feat = read(gen.shp), !.shp = rest(gen.shp),
                          !.shpReads = gen.shpReads + 1, !.pc = "readDbf"]
    /\ UNCHANGED <<shp, shpIn, dbf, dbfIn, poly, cli>>

\* const prop = await dbf_reader.read()
StitchReadDbf ==
    /\ gen.pc = "readDbf"
    /\ gen' = [gen EXCEPT !.prop = read(gen.dbf), !.dbf = rest(gen.dbf),
                          !.dbfReads = gen.dbfReads + 1, !.pc = "pair"]
    /\ UNCHANGED <<shp, shpIn, dbf, dbfIn, poly, cli>>

\* break, throw or yield
StitchPair ==
    /\ gen.pc = "pair"
    /\ gen' = CASE outcome(gen.feat, gen.prop) = "break" -> [gen EXCEPT !.pc = "returned"]
                [] outcome(gen.feat, gen.prop) = "yield" ->
                      [gen EXCEPT !.pc = "yielded",
                                  !.yielded = Append(gen.yielded,
                                      withProperties(gen.feat.value, gen.prop.value))]
                [] OTHER -> [gen EXCEPT !.pc = "threw", !.err = "TypeError",
                                        !.msg = outcome(gen.feat, gen.prop)]
    /\ UNCHANGED <<shp, shpIn, dbf, dbfIn, poly, cli>>

\* the well-formed SHP files: what SHPTransform makes of one of them can be
\* the first stream
Piped == {f \in 1..Len(SHPFiles) : SHPFiles[f].wf}

\* the readable side of shpstream.pipeThrough(shpTransform) for file f
shpReadable(f) == shpTransform(SHPNew, Whole(SHPFiles[f].bytes)).out

\* the first stream is n point Features (shpIn.file = 0) or the Features
\* decoded from a file (shpIn.file = f); the second is m rows
InitStitch ==
    /\ \E isShp \in BOOLEAN, isDbf \in BOOLEAN, n \in 0..MaxItems, m \in 0..MaxItems :
          \/ /\ gen = StitchNew(isShp, isDbf, Features(n), Rows(m))
             /\ shpIn = Unused
          \/ \E f \in Piped :
                /\ gen = StitchNew(isShp, isDbf, shpReadable(f), Rows(m))
                /\ shpIn = [Unused EXCEPT !.file = f]
    /\ shp = gen.shp /\ dbf = gen.dbf
    /\ dbfIn = Unused /\ poly = <<>> /\ cli = <<>>

NextStitch == StitchNext \/ StitchReturn \/ StitchReadShp \/ StitchReadDbf \/ StitchPair

SpecStitch == InitStitch /\ [][NextStitch]_vars

(***************************************************************************)
(* SpecPipe: stitch(shpstream.pipeThrough(SHPTransform()),                 *)
(* dbfstream.pipeThrough(DBFTransform())).  The two sources deliver their  *)
(* chunks, the two decoders turn their loops and stitch reads, all at      *)
(* their own pace; the readable side of a decoder is what it has enqueued  *)
(* and stitch has not read yet.                                            *)
(***************************************************************************)
PipeChunk == 60

PipeLens(left) == {k \in {PipeChunk, left} : k >= 1 /\ k <= left}

\* files of one, two and three records, a file with three bytes behind its
\* last record, a file with a PointZ record
PipeSHP == {2, 3, 4, 15, 12}

\* tables of no row, of six rows (two deleted) and of two rows, and a table
\* that declares a row more than it holds
PipeDBF == {1, 3, 5, 7}

PipeSHPWrite ==
    /\ shpIn.pc = "idle"
    /\ shpIn.pos < Len(shpBytes)
    /\ \E k \in PipeLens(Len(shpBytes) - shpIn.pos) :
          /\ shp' = accumulate(shp, Whole(SubSeq(shpBytes, shpIn.pos + 1, shpIn.pos + k)))
          /\ shpIn' = [shpIn EXCEPT !.pos = shpIn.pos + k, !.pc = "loop"]
    /\ UNCHANGED <<dbf, dbfIn, gen, poly, cli>>

PipeDBFWrite ==
    /\ dbfIn.pc = "idle"
    /\ dbfIn.pos < Len(dbfBytes)
    /\ \E k \in PipeLens(Len(dbfBytes) - dbfIn.pos) :
          /\ dbf' = dbfAccumulate(dbf, Whole(SubSeq(dbfBytes, dbfIn.pos + 1, dbfIn.pos + k)))
          /\ dbfIn' = [dbfIn EXCEPT !.pos = dbfIn.pos + k, !.pc = "loop"]
    /\ UNCHANGED <<shp, shpIn, gen, poly, cli>>

\* a variant of a read that settles at once, with done when nothing is queued
readyAtOnce(out, src, k) == TRUE

\* await reader.read() after k reads: the promise settles when an item is
\* queued or the stream has closed or errored
ready(out, src, k) == k < Len(out) \/ src.pc \in {"closed", "errored"}

\* the result of the read after k reads: the next item queued, or done
readAt(out, k) == read(SubSeq(out, k + 1, Len(out)))

\* const feat = await shp_reader.read(); the read of an errored stream
\* rejects, whatever was queued, and the rejection leaves stitch
PipeReadShp ==
    /\ gen.pc = "readShp"
    /\ ready(shp.out, shpIn, gen.shpReads)
    /\ gen' = IF shpIn.pc = "errored"
              THEN [gen EXCEPT !.pc = "threw", !.err = shp.err, !.msg = "shp"]
              ELSE [gen EXCEPT !.feat = readAt(shp.out, gen.shpReads),
                               !.shpReads = gen.shpReads + 1, !.pc = "readDbf"]
    /\ UNCHANGED <<shp, shpIn, dbf, dbfIn, poly, cli>>

\* const prop = await dbf_reader.read()
PipeReadDbf ==
    /\ gen.pc = "readDbf"
    /\ ready(dbf.out, dbfIn, gen.dbfReads)
    /\ gen' = IF dbfIn.pc = "errored"
              THEN [gen EXCEPT !.pc = "threw", !.err = dbf.err, !.msg = "dbf"]
              ELSE [gen EXCEPT !.prop = readAt(dbf.out, gen.dbfReads),
                               !.dbfReads = gen.dbfReads + 1, !.pc = "pair"]
    /\ UNCHANGED <<shp, shpIn, dbf, dbfIn, poly, cli>>

InitPipe ==
    /\ shp = SHPNew /\ shpIn \in {Source(f) : f \in PipeSHP}
    /\ dbf = DBFNew /\ dbfIn \in {DBFSource(f) : f \in PipeDBF}
    /\ gen = StitchNew(TRUE, TRUE, <<>>, <<>>)
    /\ poly = <<>> /\ cli = <<>>

NextPipe ==
    \/ PipeSHPWrite \/ SHPLoopStep \/ SHPLoopReturn \/ SHPFlush
    \/ PipeDBFWrite \/ DBFLoopStep \/ DBFLoopReturn \/ DBFFlush
    \/ StitchNext \/ PipeReadShp \/ PipeReadDbf \/ StitchPair

SpecPipe == InitPipe /\ [][NextPipe]_vars

(***************************************************************************)
(* SpecPoly: the polygon branch of parseRecord applied to a record of up   *)
(* to MaxRings rings taken, in any order, from a catalogue of rings.       *)
(***************************************************************************)
MaxRings == 4

\* the square x0..x1 by y0..y1, clockwise
Square(lo, hi) == <<<<lo, lo>>, <<lo, hi>>, <<hi, hi>>, <<hi, lo>>, <<lo, lo>>>>

\* a big clockwise square, a counter-clockwise square inside it, a
\* clockwise square inside that and a counter-clockwise square inside that;
\* a clockwise square apart, with a counter-clockwise triangle inside; a
\* counter-clockwise square apart from all; a ring that is not closed
RingCatalogue ==
    << Square(0, 16), Reverse(Square(2, 14)), Square(4, 12), Reverse(Square(6, 10)),
       Square(20, 24), <<<<21, 21>>, <<23, 21>>, <<21, 23>>, <<21, 21>>>>,
       Reverse(Square(26, 30)), <<<<0, 0>>, <<0, 1>>, <<1, 1>>, <<1, 0>>>> >>

Picks(n) == {s \in [1..n -> 1..Len(RingCatalogue)] : \A i, j \in 1..n : i # j => s[i] # s[j]}

PolyRecords == UNION {Picks(n) : n \in 1..MaxRings}

linesOf(picks) == [i \in 1..Len(picks) |-> RingCatalogue[picks[i]]]

\* parseRecord on the bytes of a Polygon record with these rings
PolyParse ==
    /\ poly.pc = "new"
    /\ poly' = [poly EXCEPT !.pc = "done",
                            !.result = parseRecord(PolyBody(5, linesOf(poly.picks)), 0)]
    /\ UNCHANGED <<shp, shpIn, dbf, dbfIn, gen, cli>>

InitPoly ==
    /\ poly \in {[picks |-> s, pc |-> "new", result |-> Throw("none")] : s \in PolyRecords}
    /\ shp = <<>> /\ shpIn = Unused /\ dbf = <<>> /\ dbfIn = Unused /\ gen = <<>> /\ cli = <<>>

NextPoly == PolyParse

SpecPoly == InitPoly /\ [][NextPoly]_vars

(***************************************************************************)
(* SpecRings: parseRecord on a Polygon record of no ring, of one ring or   *)
(* of two rings of RingSamples, or of two nested outers and a hole.        *)
(***************************************************************************)
\* a clockwise arch: legs x in 0..4 and 12..16, a bar y in 12..16 across
Arch ==
    <<<<0, 0>>, <<0, 16>>, <<16, 16>>, <<16, 0>>, <<12, 0>>, <<12, 12>>, <<4, 12>>,
      <<4, 0>>, <<0, 0>>>>

\* a counter-clockwise triangle from under the arch up into its bar
Straddle == <<<<8, 4>>, <<10, 14>>, <<6, 14>>, <<8, 4>>>>

\* a counter-clockwise rectangle under the arch
NotchRing == <<<<6, 2>>, <<10, 2>>, <<10, 6>>, <<6, 6>>, <<6, 2>>>>

\* a counter-clockwise triangle round the corner 12, 12 of Square(4, 12)
CornerTri == <<<<9, 13>>, <<13, 9>>, <<13, 13>>, <<9, 13>>>>

\* three points; four points on a line
ShortRing == <<<<0, 0>>, <<0, 8>>, <<0, 0>>>>

FlatRing == <<<<0, 0>>, <<4, 4>>, <<8, 8>>, <<0, 0>>>>

RingSamples ==
    << Arch, Straddle, Reverse(Square(1, 3)), NotchRing, Reverse(Square(20, 24)),
       Square(4, 12), CornerTri, TriOuter, TriOpen, ShortRing, FlatRing >>

\* two nested outers and a hole inside both, in every order
Nested == <<Square(0, 16), Square(4, 12), Reverse(Square(6, 10))>>

\* the orders of n things
Orders(n) == {s \in [1..n -> 1..n] : \A i, j \in 1..n : i # j => s[i] # s[j]}

RingRecords ==
    {<<>>}
    \cup {<<RingSamples[i]>> : i \in 1..Len(RingSamples)}
    \cup {<<RingSamples[p[1]], RingSamples[p[2]]>> :
              p \in {q \in (1..Len(RingSamples)) \X (1..Len(RingSamples)) : q[1] # q[2]}}
    \cup {[k \in 1..Len(Nested) |-> Nested[s[k]]] : s \in Orders(Len(Nested))}

\* a Polygon record of these parts
RingsBody(lines) ==
    IF lines = <<>> THEN U32LE(5) \o Zeros(32) \o U32LE(0) \o U32LE(0)
    ELSE PolyBody(5, lines)

RingsParse ==
    /\ poly.pc = "new"
    /\ poly' = [poly EXCEPT !.pc = "done",
                            !.result = parseRecord(RingsBody(poly.lines), 0)]
    /\ UNCHANGED <<shp, shpIn, dbf, dbfIn, gen, cli>>

InitRings ==
    /\ poly \in {[lines |-> l, pc |-> "new", result |-> Throw("none")] : l \in RingRecords}
    /\ shp = <<>> /\ shpIn = Unused /\ dbf = <<>> /\ dbfIn = Unused /\ gen = <<>>
    /\ cli = <<>>

NextRings == RingsParse

SpecRings == InitRings /\ [][NextRings]_vars

(***************************************************************************)
(* shp2json.js: the main loop.  `features` counts the Features the         *)
(* iterator has yet to deliver (Feature k is the k-th of the input);       *)
(* `output` is the sequence of writes: Opening, Comma, the text of Feature *)
(* k, Newline, Closing.                                                    *)
(***************************************************************************)
\* {"type": "FeatureCollection", "bbox": ..., "features": [
Opening == [kind |-> "opening", k |-> 0]

Comma == [kind |-> "comma", k |-> 0]

Newline == [kind |-> "newline", k |-> 0]

\* ]}
Closing == [kind |-> "closing", k |-> 0]

\* JSON.stringify(feature, fmt) for the k-th Feature of the input
FeatureText(k) == [kind |-> "feature", k |-> k]

\* let limit = 1000000000 when --limit is not given
NoLimit == 1000000000

\* lines 141-143, with the options as parsed
CLINew(n, start, limit, nd) ==
    [pc |-> "loop", features |-> n, start |-> start, limit |-> limit, nd |-> nd,
     first |-> TRUE, count |-> 0, output |-> <<>>, ended |-> FALSE]

\* lines 150-156: what is written before a Feature
separator(c) ==
    IF c.nd THEN <<>> ELSE IF c.first THEN <<Opening>> ELSE <<Comma>>

\* lines 150-161: the body of the loop for a Feature that is to be written
writeFeature(c) ==
    [c EXCEPT !.output = c.output \o separator(c) \o <<FeatureText(c.count)>>
                            \o (IF c.nd THEN <<Newline>> ELSE <<>>),
              !.first = FALSE]

\* lines 145-161: one Feature taken from the iterator
takeFeature(c) ==
    IF c.count <= c.start THEN c
    ELSE IF c.count > c.start + c.limit THEN [c EXCEPT !.pc = "after"]
    ELSE writeFeature(c)

MaxFeatures == 3

\* the numbers --start and --limit accept ([1-9][0-9]*), and their defaults
Starts == 0..MaxFeatures

Limits == (1..MaxFeatures) \cup {NoLimit}

\* for await: the iterator delivers the next Feature
CLIFeature ==
    /\ cli.pc = "loop" /\ cli.features > 0
    /\ cli' = takeFeature([cli EXCEPT !.features = cli.features - 1,
                                      !.count = cli.count + 1])
    /\ UNCHANGED <<shp, shpIn, dbf, dbfIn, gen, poly>>

\* for await: the iterator is done
CLIDone ==
    /\ cli.pc = "loop" /\ cli.features = 0
    /\ cli' = [cli EXCEPT !.pc = "after"]
    /\ UNCHANGED <<shp, shpIn, dbf, dbfIn, gen, poly>>

\* lines 163-165
CLIEnd ==
    /\ cli.pc = "after"
    /\ cli' = [cli EXCEPT !.output = IF cli.nd THEN cli.output
                                     ELSE Append(cli.output, Closing),
                          !.ended = TRUE, !.pc = "exit"]
    /\ UNCHANGED <<shp, shpIn, dbf, dbfIn, gen, poly>>

InitCLI ==
    /\ cli \in {CLINew(n, s, l, nd) :
                    n \in 0..MaxFeatures, s \in Starts, l \in Limits, nd \in BOOLEAN}
    /\ shp = cli.features
    /\ shpIn = Unused /\ dbf = <<>> /\ dbfIn = Unused /\ gen = <<>> /\ poly = <<>>

NextCLI == CLIFeature \/ CLIDone \/ CLIEnd

SpecCLI == InitCLI /\ [][NextCLI]_vars

(***************************************************************************)
(* Properties of SHPTransform (SpecSHP).                                   *)
(***************************************************************************)
\* the stream after the whole file came as one chunk and the source ended
shpFinish(st) == IF st.err # "none" THEN st ELSE shpFlush(st)

SHPWhole == [f \in 1..Len(SHPFiles) |-> shpFinish(shpTransform(SHPNew, Whole(SHPFiles[f].bytes)))]

SameFeature(a, b) == a.geometry.type = b.geometry.type /\ a = b

SameFeatures(s, t) == Len(s) = Len(t) /\ \A i \in 1..Len(s) : SameFeature(s[i], t[i])

shpEnded == shpIn.pc \in {"closed", "errored"}

\* C1 (as claimed, SHP half): however the bytes of a file are split into
\* chunks, SHPTransform has enqueued the same Features and ended the same way
\* (clean close or error) as when the file comes as one chunk.
C1_ChunkIndependent ==
    shpEnded =>
        /\ SameFeatures(shp.out, SHPWhole[shpIn.file].out)
        /\ (shp.err = "none") <=> (SHPWhole[shpIn.file].err = "none")

\* the file whose one record header declares 2 words for a 20-byte Point
\* body, fed in small chunks, has failed inside transform with a RangeError
\* and nothing out, while as one chunk it emits one Feature
C1_Witness ==
    /\ shpIn.pc = "errored" /\ shpIn.threw = "transform" /\ shp.err = "RangeError"
    /\ shp.out = <<>>
    /\ Len(SHPWhole[shpIn.file].out) = 1 /\ SHPWhole[shpIn.file].err = "TypeError"

\* the positions in the file at which its records end
RECURSIVE RecEnds(_, _)
RecEnds(bodies, at) ==
    IF bodies = <<>> THEN <<>>
    ELSE <<at + RecHeaderLen + Len(Head(bodies))>>
            \o RecEnds(Tail(bodies), at + RecHeaderLen + Len(Head(bodies)))

SHPEnds == [f \in 1..Len(SHPFiles) |-> RecEnds(SHPFiles[f].recs, SHPHeaderLen)]

\* the number of records of file f whose last byte is among the first pos bytes
Arrived(f, pos) == Cardinality({k \in 1..Len(SHPEnds[f]) : SHPEnds[f][k] <= pos})

\* the k-th record of file f decoded on its own
SHPExpected ==
    [f \in 1..Len(SHPFiles) |->
        [k \in 1..Len(SHPFiles[f].recs) |-> parseRecord(SHPFiles[f].recs[k], 0).val]]

\* C2: a well-formed SHP stream of n records, under every chunking, never
\* errors; when a transform call returns, exactly the records whose last byte
\* has arrived have been emitted (never one more inside a call), the k-th
\* Feature being the k-th record decoded; at the end n Features are out and
\* flush has passed.
C2_WellFormedSHP ==
    SHPFiles[shpIn.file].wf =>
        /\ shpIn.pc # "errored"
        /\ Len(shp.out) <= Arrived(shpIn.file, shpIn.pos)
        /\ shpIn.pc \in {"idle", "closed"} => Len(shp.out) = Arrived(shpIn.file, shpIn.pos)
        /\ shpIn.pc = "closed" => Len(shp.out) = Len(SHPFiles[shpIn.file].recs)
        /\ \A k \in 1..Len(shp.out) : SameFeature(shp.out[k], SHPExpected[shpIn.file][k])

\* a two-record file (a point, a polygon with a hole) that came in several
\* chunks has closed with both Features out
C2_Witness ==
    /\ shpIn.file = 7 /\ shpIn.pc = "closed"
    /\ Len(shp.out) = 2 /\ shp.out[2].geometry.type = "Polygon"
    /\ Len(shp.buffer) < Len(shpBytes)

\* the bytes SHPTransform has consumed: those delivered less those still
\* waiting in the buffer from offset on
shpConsumed == shpIn.pos - (Len(shp.buffer) - shp.offset)

\* the header of the file declares 8 bytes less than the file holds
shortBy8 == SHPFiles[shpIn.file].declared = Len(shpBytes) - 8

\* C6: when the input ends (flush is called) after the header was decoded,
\* flush throws exactly when the declared file length differs from the bytes
\* consumed (header, record headers, record bodies); the file declared 8
\* bytes short decodes both its records without error and fails only in flush.
C6_Truncation ==
    /\ (shpEnded /\ shpIn.threw # "transform" /\ shp.status # 0) =>
          ((shpIn.pc = "errored") <=> (SHPFiles[shpIn.file].declared - shpConsumed # 0))
    /\ shortBy8 =>
          /\ shpIn.threw # "transform"
          /\ shpEnded => (shpIn.threw = "flush" /\ Len(shp.out) = 2)

C6_Witness ==
    /\ shortBy8 /\ shpIn.pc = "errored" /\ shpIn.threw = "flush"
    /\ shp.err = "TypeError" /\ Len(shp.out) = 2 /\ shp.filesize = -8

(***************************************************************************)
(* Properties of DBFTransform (SpecDBF).                                   *)
(***************************************************************************)
dbfFile == DBFFiles[dbfIn.file]

RECURSIVE activeRows(_)
activeRows(rows) ==
    IF rows = <<>> THEN <<>>
    ELSE IF Head(rows).flag = Active THEN <<Head(rows)>> \o activeRows(Tail(rows))
    ELSE activeRows(Tail(rows))

Survivors == [f \in 1..Len(DBFFiles) |-> activeRows(DBFFiles[f].rows)]

\* the k-th surviving row of file f decoded from its own bytes alone
rowAlone(f, k) == dbfRecord(RowBytes(Survivors[f][k]), 0, DBFFiles[f].fields).val

dbfEnded == dbfIn.pc \in {"closed", "errored"}

\* the rows the loop has dealt with: emitted, or passed over as deleted
dbfProcessed == Len(dbf.out) + dbfIn.skipped

\* C3 (as claimed): a well-formed DBF stream of n rows, d of them deleted,
\* under every chunking never errors and closes with exactly the n - d
\* surviving rows out, in file order, also when fewer than 32 bytes follow
\* the field descriptors.
C3_WellFormedDBF ==
    dbfFile.wf =>
        /\ dbfIn.pc # "errored"
        /\ dbfIn.pc = "closed" =>
              /\ Len(dbf.out) = Len(Survivors[dbfIn.file])
              /\ \A k \in 1..Len(dbf.out) : dbf.out[k] = rowAlone(dbfIn.file, k)

\* a well-formed table of three rows, 14 bytes after its field descriptors,
\* has failed in flush with the loop still waiting for a descriptor
C3_Witness ==
    /\ dbfFile.wf /\ Len(dbfFile.rows) = 3
    /\ dbfIn.pc = "errored" /\ dbfIn.threw = "flush"
    /\ dbf.status = 1 /\ dbf.out = <<>> /\ dbf.numrec = 3

\* C7: once the header is decoded, the remaining-record counter is the
\* declared count less the rows processed (emitted plus deleted), and when
\* the input ends flush throws exactly when the two counts differ.
C7_RowCount ==
    /\ (dbf.status # 0 /\ dbf.err = "none") => dbf.numrec = dbfFile.declared - dbfProcessed
    /\ (dbfEnded /\ dbfIn.threw # "transform" /\ dbf.status # 0) =>
          ((dbfIn.pc = "errored") <=> (dbfProcessed # dbfFile.declared))

\* a table declaring one row more than it holds fails in flush after all its
\* rows, two of them deleted, were processed
C7_Witness ==
    /\ dbfIn.pc = "errored" /\ dbfIn.threw = "flush"
    /\ dbfFile.declared = Len(dbfFile.rows) + 1
    /\ dbfIn.skipped = 2 /\ dbfProcessed = Len(dbfFile.rows)

rowFlag == getUint8(dbf.buffer, dbf.offset)

atRow == dbfIn.pc = "loop" /\ ~starved(dbf) /\ dbf.status = 2 /\ dbf.reclen > 0

\* C8: in a table whose record length is that of its fields, the turn of the
\* loop that meets a row flagged 0x2A emits nothing, takes one off the
\* counter and moves the cursor by one record length; the turn that meets a
\* flag other than 0x20 and 0x2A throws TypeError and emits nothing; the rows
\* out are, in order, the surviving rows among those processed, each equal to
\* the decoding of its own bytes alone.
C8_DeletedRows ==
    dbfFile.consistent =>
        /\ (atRow /\ rowFlag = Deleted) =>
              dbfStep(dbf) = [dbf EXCEPT !.offset = dbf.offset + dbf.reclen,
                                         !.numrec = dbf.numrec - 1]
        /\ (atRow /\ rowFlag \notin {Active, Deleted}) =>
              /\ dbfStep(dbf).err = "TypeError"
              /\ dbfStep(dbf).out = dbf.out
        /\ dbfProcessed <= Len(dbfFile.rows)
        /\ Len(dbf.out) = Len(activeRows(SubSeq(dbfFile.rows, 1, dbfProcessed)))
        /\ \A k \in 1..Len(dbf.out) : dbf.out[k] = rowAlone(dbfIn.file, k)

\* a table of six rows, the second and fourth deleted, has closed with the
\* four others out
C8_Witness ==
    /\ dbfIn.pc = "closed" /\ dbfIn.skipped = 2 /\ Len(dbf.out) = 4
    /\ Len(dbf.buffer) < Len(dbfBytes)

(***************************************************************************)
(* Properties of stitch (SpecStitch): shp and dbf hold what the two        *)
(* streams deliver.                                                        *)
(***************************************************************************)
stitchArgsOk == gen.isShp /\ gen.isDbf

\* the k-th geometry with the k-th row as its properties
Paired(k) == [shp[k] EXCEPT !.properties = [null |-> FALSE, row |-> dbf[k]]]

\* C4: over n geometries and n rows stitch never throws; what it has
\* yielded is always g1..gk carrying a1..ak, one more at every step; a step
\* reads one item of each stream, the geometry first; it returns after n
\* yields and one more read of each stream, the one that reports the end.
C4_Pairing ==
    (stitchArgsOk /\ Len(shp) = Len(dbf)) =>
        /\ gen.pc # "threw"
        /\ \A k \in 1..Len(gen.yielded) : SameFeature(gen.yielded[k], Paired(k))
        /\ gen.pc = "readDbf" => gen.shpReads = gen.dbfReads + 1
        /\ gen.pc \in {"pair", "yielded", "returned"} => gen.shpReads = gen.dbfReads
        /\ gen.pc = "yielded" => Len(gen.yielded) = gen.shpReads
        /\ gen.pc = "returned" =>
              /\ Len(gen.yielded) = Len(shp)
              /\ gen.shpReads = Len(shp) + 1

C4_Witness ==
    /\ stitchArgsOk /\ gen.pc = "returned"
    /\ Len(gen.yielded) = MaxItems /\ Len(shp) = MaxItems /\ Len(dbf) = MaxItems

\* C5: stitch over two streams returns without error exactly when both
\* report the end at the same step; when one has ended and the other still
\* delivers, it throws the TypeError that names the shorter stream, having
\* yielded only the pairs before; 3 geometries and 2 rows give 2 features
\* and then the error.
C5_Termination ==
    stitchArgsOk =>
        /\ gen.pc = "returned" => (Len(shp) = Len(dbf) /\ gen.feat.done /\ gen.prop.done)
        /\ gen.pc = "threw" =>
              /\ gen.err = "TypeError"
              /\ gen.feat.done # gen.prop.done
              /\ Len(shp) # Len(dbf)
              /\ Len(gen.yielded) = Min(Len(shp), Len(dbf))
              /\ gen.msg = IF Len(shp) < Len(dbf) THEN "stitch: not enough feature records."
                                                  ELSE "stitch: not enough dbf records."
        /\ \A k \in 1..Len(gen.yielded) : SameFeature(gen.yielded[k], Paired(k))
        /\ (Len(shp) # Len(dbf)) => gen.pc # "returned"
        /\ (Len(shp) = Len(dbf)) => gen.pc # "threw"

C5_Witness ==
    /\ stitchArgsOk /\ Len(shp) = 3 /\ Len(dbf) = 2
    /\ gen.pc = "threw" /\ gen.err = "TypeError" /\ Len(gen.yielded) = 2
    /\ ~gen.feat.done /\ gen.prop.done

(***************************************************************************)
(* Properties of the polygon branch (SpecPoly).                            *)
(***************************************************************************)
\* twice the signed area of a closed ring by the cross products of its
\* edges: positive when the ring runs counter-clockwise
Winding(ring) ==
    SumSeq([i \in 1..(Len(ring) - 1) |->
                ring[i][1] * ring[i + 1][2] - ring[i + 1][1] * ring[i][2]])

\* the polygons of a Polygon or MultiPolygon geometry
Polys(geometry) ==
    IF geometry.type = "Polygon" THEN <<geometry.coordinates>> ELSE geometry.coordinates

polyDecoded == poly.pc = "done" /\ poly.result.err = "none"

\* C9: in the geometry of a polygon record that decoded without error the
\* first ring of every polygon runs counter-clockwise and every further
\* ring clockwise.
C9_Winding ==
    polyDecoded =>
        \A i \in 1..Len(Polys(poly.result.val.geometry)) :
            /\ Winding(Polys(poly.result.val.geometry)[i][1]) > 0
            /\ \A j \in 2..Len(Polys(poly.result.val.geometry)[i]) :
                  Winding(Polys(poly.result.val.geometry)[i][j]) < 0

\* a record of a counter-clockwise ring apart, a clockwise square and a
\* counter-clockwise square inside it has become two polygons, one of them
\* with a hole
C9_Witness ==
    /\ polyDecoded /\ Len(poly.picks) = 3
    /\ poly.result.val.geometry.type = "MultiPolygon"
    /\ Len(poly.result.val.geometry.coordinates) = 2
    /\ \E i \in 1..2 : Len(poly.result.val.geometry.coordinates[i]) = 2
    /\ \E i \in 1..3 : Winding(RingCatalogue[poly.picks[i]]) > 0
                       /\ \E k \in 1..2 : poly.result.val.geometry.coordinates[k]
                                             = <<RingCatalogue[poly.picks[i]]>>

\* the test of lines 647-649 of a hole against an outer, both as in the record
passes(hole, outer) ==
    /\ ringSum(hole) < Abs(ringSum(outer))
    /\ ringIntersect(outer, bbox_of(outer), hole, bbox_of(hole))

\* the clockwise rings of the record
recordOuters == {r \in {RingCatalogue[poly.picks[i]] : i \in 1..Len(poly.picks)} : ringSum(r) < 0}

\* C10 (as claimed): a hole of an emitted polygon is attached to the outer of
\* smallest absolute area among the outers of the record it passes the
\* containment test against.
C10_TightestOuter ==
    polyDecoded =>
        \A i \in 1..Len(Polys(poly.result.val.geometry)) :
            \A j \in 2..Len(Polys(poly.result.val.geometry)[i]) :
                \A o \in recordOuters :
                    passes(Reverse(Polys(poly.result.val.geometry)[i][j]), o) =>
                        Abs(ringSum(Reverse(Polys(poly.result.val.geometry)[i][1])))
                            <= Abs(ringSum(o))

\* the hole inside the smaller of two nested outers has been attached to the
\* bigger one
C10_Witness ==
    /\ polyDecoded /\ poly.picks = <<1, 3, 4>>
    /\ poly.result.val.geometry.type = "MultiPolygon"
    /\ poly.result.val.geometry.coordinates[1]
          = <<Reverse(RingCatalogue[1]), Reverse(RingCatalogue[4])>>
    /\ poly.result.val.geometry.coordinates[2] = <<Reverse(RingCatalogue[3])>>

\* the i-th ring of the record
recRing(i) == RingCatalogue[poly.picks[i]]

\* ring h lies inside the square o, by their coordinates
within(h, o) ==
    /\ bbox_of(o)[1] < bbox_of(h)[1] /\ bbox_of(h)[3] < bbox_of(o)[3]
    /\ bbox_of(o)[2] < bbox_of(h)[2] /\ bbox_of(h)[4] < bbox_of(o)[4]

\* the squares o1 and o2 have no point in common
apart(o1, o2) ==
    \/ bbox_of(o1)[3] < bbox_of(o2)[1] \/ bbox_of(o2)[3] < bbox_of(o1)[1]
    \/ bbox_of(o1)[4] < bbox_of(o2)[2] \/ bbox_of(o2)[4] < bbox_of(o1)[2]

\* positions a, b hold two clockwise squares apart, c a counter-clockwise
\* ring inside the first and d one inside the second
twoWithHoles(a, b, c, d) ==
    /\ Cardinality({a, b, c, d}) = 4
    /\ Winding(recRing(a)) < 0 /\ Winding(recRing(b)) < 0
    /\ Winding(recRing(c)) > 0 /\ Winding(recRing(d)) > 0
    /\ apart(recRing(a), recRing(b))
    /\ within(recRing(c), recRing(a)) /\ within(recRing(d), recRing(b))

\* C11: a record of four rings, two disjoint outers each enclosing one hole,
\* in whatever order, decodes to a MultiPolygon of two polygons, each an
\* exterior followed by exactly the hole that lies inside it.
C11_TwoOutersTwoHoles ==
    (poly.pc = "done" /\ Len(poly.picks) = 4) =>
        \A a, b, c, d \in 1..4 :
            twoWithHoles(a, b, c, d) =>
                /\ poly.result.err = "none"
                /\ poly.result.val.geometry.type = "MultiPolygon"
                /\ Len(poly.result.val.geometry.coordinates) = 2
                /\ {poly.result.val.geometry.coordinates[1],
                    poly.result.val.geometry.coordinates[2]}
                      = {<<Reverse(recRing(a)), Reverse(recRing(c))>>,
                         <<Reverse(recRing(b)), Reverse(recRing(d))>>}

\* the record that lists the two holes before their outers, the smaller
\* pair first, has been decoded
C11_Witness ==
    /\ polyDecoded /\ Len(poly.picks) = 4
    /\ twoWithHoles(4, 3, 2, 1)
    /\ Winding(recRing(3)) > Winding(recRing(4))
    /\ Len(poly.result.val.geometry.coordinates) = 2

\* every ring of the record is closed
allClosed == \A i \in 1..Len(poly.picks) : recRing(i)[1] = recRing(i)[Len(recRing(i))]

\* the i-th ring is counter-clockwise and inside no clockwise ring of the record
orphan(i) ==
    /\ Winding(recRing(i)) > 0
    /\ \A j \in 1..Len(poly.picks) : Winding(recRing(j)) < 0 => ~within(recRing(i), recRing(j))

\* C12: a record whose rings are all closed decodes without error; a
\* counter-clockwise ring that lies inside no outer of the record comes out
\* as a polygon of its own, that ring alone with its points in the order of
\* the input; a record of one counter-clockwise ring is a Polygon of that
\* ring as it was.
C12_OrphanInner ==
    (poly.pc = "done" /\ allClosed) =>
        /\ poly.result.err = "none"
        /\ \A i \in 1..Len(poly.picks) :
              orphan(i) =>
                  \E k \in 1..Len(Polys(poly.result.val.geometry)) :
                      Polys(poly.result.val.geometry)[k] = <<recRing(i)>>
        /\ (Len(poly.picks) = 1 /\ Winding(recRing(1)) > 0) =>
              poly.result.val.geometry
                  = [type |-> "Polygon", coordinates |-> <<recRing(1)>>]

\* a record of one counter-clockwise ring has been decoded
C12_Witness ==
    /\ polyDecoded /\ Len(poly.picks) = 1 /\ Winding(recRing(1)) > 0
    /\ poly.result.val.geometry.type = "Polygon"

(***************************************************************************)
(* Further properties of stitch (SpecStitch).                              *)
(***************************************************************************)
\* the items stitch has not taken from the two streams
untaken == Len(gen.shp) + Len(gen.dbf)

\* C13 (as claimed, for stitch): once the consumer has stopped iterating,
\* stitch reads nothing more from its two streams, items may be left in
\* them, and neither stream is left locked: each is cancelled or free.
C13_Cancellation ==
    gen.pc = "stopped" =>
        /\ gen.shpReads = Len(gen.yielded) /\ gen.dbfReads = Len(gen.yielded)
        /\ gen.shpLock # "locked"
        /\ gen.dbfLock # "locked"

\* the consumer has stopped after the first feature of three, and both
\* streams are still locked to their readers with items left in them
C13_Witness ==
    /\ gen.pc = "stopped" /\ stitchArgsOk /\ Len(gen.yielded) = 1 /\ untaken = 4
    /\ gen.shpLock = "locked" /\ gen.dbfLock = "locked"

\* C15 (as claimed): without a second argument stitch does not throw, what
\* it yields are the geometries in order with null properties, and it
\* returns when the geometry stream has ended.
C15_PassThrough ==
    (gen.isShp /\ ~gen.isDbf) =>
        /\ gen.pc # "threw"
        /\ \A k \in 1..Len(gen.yielded) : SameFeature(gen.yielded[k], shp[k])
        /\ gen.pc = "returned" => Len(gen.yielded) = Len(shp)

\* C15 (amended): when the second argument is not a ReadableStream the
\* first next() throws the TypeError 'stitch: second arg: not a
\* ReadableStream'; stitch takes no reader, reads nothing and yields nothing.
C15_SecondArgRequired ==
    (gen.isShp /\ ~gen.isDbf) =>
        /\ gen.pc \in {"start", "threw", "stopped"}
        /\ gen.pc = "threw" =>
              (gen.err = "TypeError" /\ gen.msg = "stitch: second arg: not a ReadableStream")
        /\ gen.yielded = <<>> /\ gen.shpReads = 0 /\ gen.dbfReads = 0
        /\ gen.shpLock = "free" /\ Len(gen.shp) = Len(shp)

\* stitch over three geometries and no attribute stream has thrown
C15_Witness ==
    /\ gen.isShp /\ ~gen.isDbf /\ Len(shp) = 3
    /\ gen.pc = "threw" /\ gen.err = "TypeError" /\ gen.yielded = <<>>

(***************************************************************************)
(* Further properties of SHPTransform (SpecSHP); shp.bbox is the caller's  *)
(* array, <<>> as long as nothing was written to it.                       *)
(***************************************************************************)
\* C14: the caller's bbox is untouched while fewer than 100 bytes have come
\* and while the header is not decoded; from the step that decodes the
\* header on it holds the header's envelope, before any Feature is out, and
\* no later record or chunk changes it.
C14_BBoxSlot ==
    /\ shpIn.pos < SHPHeaderLen => shp.bbox = <<>>
    /\ shp.status = 0 => (shp.bbox = <<>> /\ shp.out = <<>>)
    /\ shp.status # 0 => shp.bbox = HeaderEnvelope

\* a polygon with a box of its own has been emitted and the slot still
\* holds the header's envelope
C14_Witness ==
    /\ Len(shp.out) = 2 /\ shp.out[2].geometry.type = "Polygon"
    /\ shp.out[2].bbox # HeaderEnvelope
    /\ shp.bbox = HeaderEnvelope /\ shpIn.pc = "closed"

\* the type tag of a record body
tagOf(body) == getInt32LE(body, 0)

\* C16 (as claimed, for SHPTransform): whatever the bytes and the chunking,
\* SHPTransform fails with a TypeError or not at all.
C16_TypeErrorOnly == shp.err \in {"none", "TypeError"}

\* the decoder has failed with a RangeError on a record whose header
\* declares fewer bytes than a point takes
C16_Witness ==
    /\ shp.err = "RangeError" /\ shpIn.pc = "errored" /\ shpIn.threw = "transform"
    /\ shp.status = 2 /\ shp.needed < Len(PointBody(1, 2))
    /\ tagOf(SubSeq(shp.buffer, shp.offset + 1, Len(shp.buffer))) = 1

\* the first four bytes of the file are not 9994, big-endian
badMagic == Len(shpBytes) >= 4 /\ SubSeq(shpBytes, 1, 4) # U32BE(Magic)

\* C17: when the first four bytes are not 9994 big-endian, the decoder stays
\* in the header state, emits nothing and leaves the bbox alone; once the
\* 100 header bytes have come the header step has thrown a TypeError.
C17_MagicRejected ==
    badMagic =>
        /\ shp.status = 0 /\ shp.out = <<>> /\ shp.bbox = <<>>
        /\ shp.err \in {"none", "TypeError"}
        /\ (shpIn.pos >= SHPHeaderLen /\ shpIn.pc # "loop") =>
              (shpIn.pc = "errored" /\ shpIn.threw = "transform" /\ shp.err = "TypeError")

C17_Witness ==
    /\ badMagic /\ shpIn.pc = "errored" /\ shp.err = "TypeError"
    /\ SubSeq(shpBytes, 1, 4) = U32LE(Magic) /\ shp.status = 0

Supported == {0, 1, 3, 5, 8}

\* the Z and M variants of the shape types
ZMTypes == {11, 13, 15, 18, 21, 23, 25, 28, 31}

\* the index of the first record of the file with an unsupported type, 0 if none
firstUnsupported ==
    IF \E k \in 1..Len(SHPFiles[shpIn.file].recs) : tagOf(SHPFiles[shpIn.file].recs[k]) \notin Supported
    THEN CHOOSE k \in 1..Len(SHPFiles[shpIn.file].recs) :
            /\ tagOf(SHPFiles[shpIn.file].recs[k]) \notin Supported
            /\ \A j \in 1..(k - 1) : tagOf(SHPFiles[shpIn.file].recs[j]) \in Supported
    ELSE 0

\* the loop is about to decode the body of the record after those emitted
atBody == shpIn.pc = "loop" /\ ~starved(shp) /\ shp.status = 2

isDecimal(str) ==
    \/ IsDigits(str)
    \/ str # <<>> /\ Head(str) \in {43, 45} /\ IsDigits(Tail(str))

decimalOf(str) ==
    IF IsDigits(str) THEN decimal(str)
    ELSE IF Head(str) = 45 THEN -decimal(Tail(str)) ELSE decimal(Tail(str))

\* what the content of a numeric column is to decode to
numberExpected(str) == IF isDecimal(str) THEN Num(decimalOf(str)) ELSE NullValue

numericField(j) == dbfFile.fields[j].type \in {78, 70}

\* C19 (as claimed): in every row out, an N or F column whose content is
\* blank or is no number is null, and decimal content is that number.
C19_NumericFields ==
    dbfFile.consistent =>
        \A k \in 1..Len(dbf.out) :
            \A j \in 1..Len(dbfFile.fields) :
                numericField(j) =>
                    dbf.out[k][j].value
                        = numberExpected(trim(Survivors[dbfIn.file][k].cols[j]))

\* the row whose N column holds "zz" is out with NaN in that column, and the
\* all-blank row before it with null
C19_Witness ==
    /\ Len(dbf.out) >= 3 /\ Len(dbfFile.fields) = 2 /\ numericField(1)
    /\ Survivors[dbfIn.file][3].cols[1] = <<122, 122>>
    /\ dbf.out[3][1].value = NaN
    /\ dbf.out[2][1].value = NullValue

\* the table declares a field of a type other than C, N, F, D, L
hasOddField == \E j \in 1..Len(dbfFile.fields) : dbfFile.fields[j].type \notin {67, 78, 70, 68, 76}

\* C20 (as claimed): a table that declares a field of an unsupported type
\* never closes cleanly, whatever rows follow.
C20_Rejected == (hasOddField /\ dbfEnded) => dbfIn.pc = "errored"

\* C20 (amended): a field of an unsupported type is fatal at the first row
\* that is decoded: the step that meets an active row throws TypeError and
\* no row is ever out; the descriptors and deleted rows are passed without
\* error, and a table without active rows closes cleanly.
C20_RejectedAtRow ==
    (hasOddField /\ dbfFile.consistent) =>
        /\ dbf.out = <<>>
        /\ (atRow /\ rowFlag = Active) => dbfStep(dbf).err = "TypeError"
        /\ dbfIn.threw = "transform" =>
              (dbf.err = "TypeError" /\ dbf.status = 2 /\ rowFlag = Active)
        /\ activeRows(dbfFile.rows) = <<>> => dbfIn.pc # "errored"

\* a table with a field of type X and six rows, all deleted, has closed
C20_Witness ==
    /\ hasOddField /\ dbfIn.pc = "closed" /\ dbfIn.skipped = 6 /\ dbf.out = <<>>

(***************************************************************************)
(* Further properties of stitch (SpecStitch).                              *)
(***************************************************************************)
\* the records of the file the first stream was decoded from
pipedRecs == SHPFiles[shpIn.file].recs

\* C21: every record of a well-formed file, those of type 0 included, is one
\* Feature of the stream (the payload count comes out at 0); in stitch the
\* Feature of a type-0 record is yielded with geometry null, no bbox and the
\* row at its own position, and every other record keeps its own row too.
C21_NullShapes ==
    (stitchArgsOk /\ shpIn.file # 0) =>
        /\ Len(shp) = Len(pipedRecs)
        /\ shpFlush(shpTransform(SHPNew, Whole(SHPFiles[shpIn.file].bytes))).err = "none"
        /\ \A k \in 1..Len(gen.yielded) :
              /\ gen.yielded[k].properties = [null |-> FALSE, row |-> dbf[k]]
              /\ tagOf(pipedRecs[k]) = 0 =>
                    (gen.yielded[k].geometry = NullGeometry /\ gen.yielded[k].bbox = <<>>)
              /\ tagOf(pipedRecs[k]) # 0 =>
                    /\ gen.yielded[k].geometry.type # "null"
                    /\ gen.yielded[k].geometry = parseRecord(pipedRecs[k], 0).val.geometry
        /\ gen.pc = "yielded" =>
              (gen.dbfReads = Len(gen.yielded) /\ gen.shpReads = Len(gen.yielded))

\* the file null, point, null stitched with three rows: all three are out,
\* the point between the two null shapes with the second row
C21_Witness ==
    /\ stitchArgsOk /\ shpIn.file # 0 /\ gen.pc = "returned"
    /\ Len(gen.yielded) = 3 /\ Len(dbf) = 3
    /\ gen.yielded[1].geometry = NullGeometry /\ gen.yielded[3].geometry = NullGeometry
    /\ gen.yielded[2].geometry.type = "Point"
    /\ gen.yielded[2].properties.row = RowNo(2)

(***************************************************************************)
(* Properties of the command line tool (SpecCLI): shp holds the number of  *)
(* Features of the input.                                                  *)
(***************************************************************************)
\* Feature a, then Comma and Feature a+1, and so on up to Feature b
RECURSIVE Listed(_, _)
Listed(a, b) ==
    IF a > b THEN <<>>
    ELSE IF a = b THEN <<FeatureText(a)>>
    ELSE <<FeatureText(a), Comma>> \o Listed(a + 1, b)

\* the FeatureCollection of Features start+1 .. min(N, start+limit)
Collection == <<Opening>> \o Listed(cli.start + 1, Min(shp, cli.start + cli.limit)) \o <<Closing>>

\* C22 (as claimed): without --ndjson the first write is the opening, and
\* when the tool has ended the writes are the opening, Features start+1 ..
\* min(N, start+limit) separated by commas, and the closing - also when no
\* Feature is written.
C22_Framing ==
    ~cli.nd =>
        /\ cli.output # <<>> => cli.output[1] = Opening
        /\ cli.ended => cli.output = Collection

\* the tool has ended without --ndjson over an input whose Features are all
\* skipped: the closing is all it wrote
C22_Witness ==
    /\ ~cli.nd /\ cli.ended /\ shp > 0 /\ shp <= cli.start
    /\ cli.output = <<Closing>>

(***************************************************************************)
(* Further properties of SHPTransform (SpecSHP).                           *)
(***************************************************************************)
\* a turn of the loop that did not throw
shpStepped == shpIn.pc = "loop" /\ shpIn'.pc = "loop" /\ shp' # shp

\* the content length, in 16-bit words, of the record header that ends where
\* the consumed bytes end
wordsBefore == getInt32BE(shpBytes, shpConsumed - 4)

\* status, needed and the payload count between two steps
shpAccounted ==
    /\ shp.status \in {0, 1, 2}
    /\ shp.status = 0 => (shp.needed = SHPHeaderLen /\ shpConsumed = 0)
    /\ shp.status = 1 => shp.needed = RecHeaderLen
    /\ shp.status = 2 => shp.needed = 2 * wordsBefore
    /\ shp.status # 0 => shp.filesize = SHPFiles[shpIn.file].declared - shpConsumed

\* what a step does to status and to the payload count
shpAlternates ==
    /\ <<shp.status, shp'.status>> \in {<<0, 1>>, <<1, 2>>, <<2, 1>>}
    /\ shp.status = 1 => shp'.filesize = shp.filesize - RecHeaderLen
    /\ shp.status = 2 => shp'.filesize = shp.filesize - shp.needed

\* C23: the status is 0 until the header is decoded and never again; from
\* then on every step goes from 1 (needed = 8) to 2 (needed = twice the
\* content length of the record header just read) or from 2 to 1, taking 8
\* or needed off the payload count; after the header the payload count is
\* the declared file length less the bytes consumed.
C23_Accounting ==
    /\ [](shpAccounted)
    /\ [][(shpStepped => shpAlternates) /\ (shp'.status = 0 => shp.status = 0)]_vars

\* inside transform, a point record is out and the body of the next record
\* (20 bytes) is waited for
C23_Witness ==
    /\ shpIn.pc = "loop" /\ shp.status = 2 /\ Len(shp.out) = 1
    /\ shp.needed = Len(PointBody(1, 2))
    /\ shp.filesize = SHPFiles[shpIn.file].declared - shpConsumed
    /\ shp.filesize < SHPFiles[shpIn.file].declared - SHPHeaderLen

(***************************************************************************)
(* Properties of both decoders (SpecCodecs).                               *)
(***************************************************************************)
\* the bytes of the buffer from offset on
left(st) == Len(st.buffer) - st.offset

\* between two calls fewer than `needed` bytes wait in the buffer
leftoverSmall(st, in) == in.pc \in {"idle", "closed"} => left(st) < st.needed

\* a turn of the loop (one that threw included) found `needed` bytes in the
\* buffer; one that enqueued something was at a record body or row
stepGuarded(st, in, st1) ==
    /\ (in.pc = "loop" /\ st1 # st) => left(st) >= st.needed
    /\ Len(st1.out) # Len(st.out) =>
          /\ st.status = 2 /\ left(st) >= st.needed
          /\ Len(st1.out) = Len(st.out) + 1

\* a chunk arrives: the buffer becomes the leftover and the chunk
chunkBounded(st, in, st1, in1) ==
    in1.pos > in.pos =>
        /\ left(st) < st.needed
        /\ Len(st1.buffer) = left(st) + (in1.pos - in.pos)
        /\ Len(st1.buffer) < st.needed + (in1.pos - in.pos)

pending(st) == slice(st.buffer, st.offset, Len(st.buffer))

\* on the arrival of the bytes pos+1 .. pos' of the file the pending bytes
\* are those that were pending with the new ones after them
appended(st, in, st1, in1, bytes) ==
    in1.pos > in.pos =>
        /\ pending(st1) = pending(st) \o SubSeq(bytes, in.pos + 1, in1.pos)
        /\ ~st.isNull => st1.offset = 0

\* C25 (as claimed): in both decoders, when a chunk arrives the buffer from
\* offset on becomes the bytes that were waiting followed by the bytes of
\* the chunk and nothing else, and for a chunk after the first offset is 0.
C25_Accumulator ==
    [][(shpIn.pc # "off" => appended(shp, shpIn, shp', shpIn', shpBytes))
       /\ (dbfIn.pc # "off" => appended(dbf, dbfIn, dbf', dbfIn', dbfBytes))]_vars

\* DBFTransform holds more bytes than the source has delivered
C25_Witness ==
    /\ dbfIn.pc = "loop" /\ ~dbf.isNull
    /\ Len(dbf.buffer) > dbfIn.pos

(***************************************************************************)
(* Properties of the ring checks and the hole matching (SpecRings).        *)
(***************************************************************************)
\* the ring is closed, has four points or more and encloses an area
sound(ring) == Len(ring) >= 4 /\ ring[1] = ring[Len(ring)] /\ Winding(ring) # 0

allSound == \A i \in 1..Len(poly.lines) : sound(poly.lines[i])

\* the box the two rings' boxes share
shared(o, h) == bbox_intersection(bbox_of(o), bbox_of(h))

\* the crossing number against `other` of the i-th point of pts, 0 when
\* the point is outside the shared box
crossing(pts, i, o, h, other) == crossingIn(pts[i], shared(o, h), other)

\* some point of pts has an odd crossing number
someOdd(pts, o, h, other) ==
    \E i \in 1..Len(pts) : crossing(pts, i, o, h, other) % 2 = 1

\* the first point of pts with a crossing number other than 0 has an odd one
firstIsOdd(pts, o, h, other) ==
    \E i \in 1..Len(pts) :
        /\ crossing(pts, i, o, h, other) % 2 = 1
        /\ \A j \in 1..(i - 1) : crossing(pts, j, o, h, other) = 0

\* no point of pts has a crossing number other than 0
inconclusive(pts, o, h, other) ==
    \A i \in 1..Len(pts) : crossing(pts, i, o, h, other) = 0

\* hole h counts as enclosed by outer o: by any point with an odd crossing
\* number (any = TRUE) or by the first point whose crossing number is not 0
enclosed(o, h, any) ==
    /\ shared(o, h) # <<>>
    /\ IF any
       THEN \/ someOdd(h, o, h, o)
            \/ inconclusive(h, o, h, o) /\ someOdd(o, o, h, h)
       ELSE \/ firstIsOdd(h, o, h, o)
            \/ inconclusive(h, o, h, o) /\ firstIsOdd(o, o, h, h)

\* the clockwise rings of the record that are candidates for hole h and
\* count as enclosing it
takers(h, any) ==
    {i \in 1..Len(poly.lines) :
        /\ Winding(poly.lines[i]) < 0
        /\ Winding(h) < Abs(Winding(poly.lines[i]))
        /\ enclosed(poly.lines[i], h, any)}

\* the first of them in candidate order: the one of greatest area
firstTaker(h, any) ==
    CHOOSE i \in takers(h, any) :
        \A j \in takers(h, any) : Abs(Winding(poly.lines[j])) <= Abs(Winding(poly.lines[i]))

\* the counter-clockwise ring h has come out as a hole of its first taker,
\* or as a polygon of its own when it has none
placed(h, any) ==
    IF takers(h, any) = {}
    THEN \E k \in 1..Len(Polys(poly.result.val.geometry)) :
            Polys(poly.result.val.geometry)[k] = <<h>>
    ELSE \E k \in 1..Len(Polys(poly.result.val.geometry)) :
            /\ Polys(poly.result.val.geometry)[k][1]
                  = Reverse(poly.lines[firstTaker(h, any)])
            /\ \E r \in 2..Len(Polys(poly.result.val.geometry)[k]) :
                  Polys(poly.result.val.geometry)[k][r] = Reverse(h)

allPlaced(any) ==
    (poly.pc = "done" /\ allSound /\ poly.lines # <<>>) =>
        /\ poly.result.err = "none"
        /\ \A i \in 1..Len(poly.lines) :
              Winding(poly.lines[i]) > 0 => placed(poly.lines[i], any)

\* C26 (as claimed): a hole is attached to the first candidate outer whose
\* box meets its own and against which some point of the hole inside the
\* shared box has an odd crossing number, or, the hole's points all giving
\* 0, some point of the outer has one against the hole; a hole with no such
\* outer becomes a polygon of its own.
C26_AnyOdd == allPlaced(TRUE)

\* What ringIntersect does instead: the test is decided by the first point
\* whose crossing number is not 0; odd attaches the hole, even (2, 4, ...)
\* ends the test with no for this outer whatever later points would give.
FirstDecides == allPlaced(FALSE)

\* the arch and the triangle that starts under it (crossing number 2) and
\* ends in its bar (crossing number 1): decoded as two polygons
C26_Witness ==
    /\ polyDecoded /\ poly.lines = <<Arch, Straddle>>
    /\ crossing(Straddle, 1, Arch, Straddle, Arch) = 2
    /\ crossing(Straddle, 2, Arch, Straddle, Arch) = 1
    /\ poly.result.val.geometry.type = "MultiPolygon"

\* C27: a polygon record with a ring that is not closed, has fewer than
\* four points or encloses no area fails with a TypeError and yields no
\* Feature, and so does a polygon record with no ring at all; a record of
\* sound rings decodes.
C27_RingValidation ==
    poly.pc = "done" =>
        /\ (poly.lines = <<>> \/ ~allSound) =>
              (poly.result.err = "TypeError" /\ poly.result.val = <<>>)
        /\ (poly.lines # <<>> /\ allSound) => poly.result.err = "none"

\* the record of a sound triangle followed by four points on a line has
\* been refused
C27_Witness ==
    /\ poly.pc = "done" /\ poly.lines = <<TriOuter, FlatRing>>
    /\ sound(TriOuter) /\ ~sound(FlatRing) /\ FlatRing[1] = FlatRing[Len(FlatRing)]
    /\ poly.result.err = "TypeError"

\* the outers that remain after matching: the clockwise rings and the
\* counter-clockwise rings no outer took
remaining ==
    Cardinality({i \in 1..Len(poly.lines) :
                    \/ Winding(poly.lines[i]) < 0
                    \/ Winding(poly.lines[i]) > 0 /\ takers(poly.lines[i], FALSE) = {}})

\* C28: a record of one closed clockwise ring of four points decodes to a
\* Polygon of one ring, the four points in reverse order; a record that
\* decodes is a Polygon when one outer remains after matching and else a
\* MultiPolygon of as many polygons as outers remain.
C28_SingleRing ==
    (poly.pc = "done" /\ allSound /\ poly.lines # <<>>) =>
        /\ poly.result.err = "none"
        /\ (Len(poly.lines) = 1 /\ Len(poly.lines[1]) = 4 /\ Winding(poly.lines[1]) < 0) =>
              poly.result.val.geometry
                  = [type |-> "Polygon",
                     coordinates |-> <<[i \in 1..4 |-> poly.lines[1][5 - i]]>>]
        /\ (poly.result.val.geometry.type = "Polygon") <=> (remaining = 1)
        /\ poly.result.val.geometry.type \in {"Polygon", "MultiPolygon"}
        /\ poly.result.val.geometry.type = "MultiPolygon" =>
              Len(poly.result.val.geometry.coordinates) = remaining

\* the record of the one clockwise triangle has been decoded
C28_Witness ==
    /\ polyDecoded /\ poly.lines = <<TriOuter>>
    /\ Len(TriOuter) = 4 /\ Winding(TriOuter) < 0
    /\ poly.result.val.geometry.type = "Polygon"
    /\ Len(poly.result.val.geometry.coordinates) = 1

\* the rows the decoder has emitted or passed over as deleted
rowsTaken == Len(dbf.out) + dbfIn.skipped

\* C30: the counter of remaining rows never falls below 0 and the decoder
\* never takes more rows, emitted or deleted, than the header declares:
\* what follows the last declared row is not decoded.
C30_DeclaredRows ==
    /\ dbf.numrec >= 0
    /\ rowsTaken <= DBFFiles[dbfIn.file].declared

\* the table that declares one row fewer than it holds: the sixth row has
\* been emitted and the counter stands below 0
C30_Witness ==
    /\ DBFFiles[dbfIn.file].declared = Len(DBFFiles[dbfIn.file].rows) - 1
    /\ dbf.numrec < 0
    /\ rowsTaken = DBFFiles[dbfIn.file].declared + 1
    /\ dbf.err = "none"

\* a turn of DBFTransform's loop that did not throw
dbfStepped == dbfIn.pc = "loop" /\ dbfIn'.pc = "loop" /\ dbf' # dbf

\* C29: every turn of the loop of SHPTransform and of DBFTransform that does
\* not throw moves offset forward by at least one byte, whatever lengths
\* the input declares, so that a call of transform comes to an end.
C29_Progress ==
    [][/\ shpStepped => shp'.offset > shp.offset
       /\ dbfStepped => dbf'.offset > dbf.offset]_vars

\* all of a file of 112 bytes is in the buffer, MaxOut Features are out and
\* the decoder stands again at the header of the one record
C29_Witness ==
    /\ shpIn.pc = "loop" /\ shpIn.pos = Len(shpBytes) /\ Len(shpBytes) = SHPHeaderLen + 12
    /\ Len(shp.out) = MaxOut
    /\ shp.status = 1 /\ shp.offset = SHPHeaderLen /\ ~starved(shp) /\ shp.err = "none"

(***************************************************************************)
(* The end of the input (SpecCodecs, SpecSHP).                             *)
(***************************************************************************)
\* the input of the running decoder is shorter than its fixed header
shpShort == shpIn.pc # "off" /\ Len(shpBytes) < SHPHeaderLen

dbfShort == dbfIn.pc # "off" /\ Len(dbfBytes) < DBFHeaderLen

\* C31: a stream that ends before the fixed header is complete (under 100
\* bytes for SHPTransform, under 32 for DBFTransform, the empty stream
\* included) never closes cleanly: its flush throws.
C31_ShortStream ==
    /\ shpShort => shpIn.pc # "closed"
    /\ dbfShort => dbfIn.pc # "closed"

\* 99 bytes of a shapefile have come and the stream has closed cleanly with
\* the header not decoded and nothing out
C31_Witness ==
    /\ shpShort /\ shpIn.pos = SHPHeaderLen - 1 /\ shpIn.pc = "closed"
    /\ shp.status = 0 /\ shp.out = <<>> /\ shp.err = "none" /\ shp.filesize = 0

\* C32: when SHPTransform closes without error every byte it received has
\* been consumed: as many bytes came as the header declares and none is
\* left in the buffer behind offset.  Stated for the streams whose header
\* was decoded, the others declare no length.
C32_AllConsumed ==
    (shpIn.pc = "closed" /\ shp.status # 0) =>
        /\ shpIn.pos = SHPFiles[shpIn.file].declared
        /\ shp.offset = Len(shp.buffer)

\* the file with three bytes behind its last declared record has closed
\* cleanly with both Features out and the three bytes in the buffer
C32_Witness ==
    /\ shpIn.pc = "closed" /\ shp.err = "none" /\ Len(shp.out) = 2
    /\ shpIn.pos = SHPFiles[shpIn.file].declared + 3
    /\ Len(shp.buffer) - shp.offset = 3

(***************************************************************************)
(* Conservation of rings (SpecPoly).                                       *)
(***************************************************************************)
\* the parts of the record
partsIn == linesOf(poly.picks)

\* all rings of the geometry, polygon after polygon
ringsOut == Flatten(Polys(poly.result.val.geometry))

\* the same ring, in the same or in the opposite direction
sameRing(a, b) == a = b \/ a = Reverse(b)

\* C33: of a polygon record that decodes without error every part comes
\* out exactly once, as the exterior or as a hole of one polygon, in its own
\* or in the opposite direction: as many rings come out as parts went in,
\* none is dropped or doubled, and every hole lies in a polygon whose
\* exterior has a strictly greater absolute area.
C33_RingConservation ==
    polyDecoded =>
        /\ Len(ringsOut) = Len(partsIn)
        /\ \A i \in 1..Len(partsIn) :
              Cardinality({k \in 1..Len(ringsOut) : sameRing(ringsOut[k], partsIn[i])})
                  = Cardinality({j \in 1..Len(partsIn) : sameRing(partsIn[j], partsIn[i])})
        /\ \A p \in 1..Len(Polys(poly.result.val.geometry)) :
              \A h \in 2..Len(Polys(poly.result.val.geometry)[p]) :
                  Abs(Winding(Polys(poly.result.val.geometry)[p][h]))
                      < Abs(Winding(Polys(poly.result.val.geometry)[p][1]))

\* a record of four parts has come out as two or more polygons with a hole
\* among them
C33_Witness ==
    /\ polyDecoded /\ Len(partsIn) = 4 /\ Len(ringsOut) = 4
    /\ Len(Polys(poly.result.val.geometry)) >= 2
    /\ \E p \in 1..Len(Polys(poly.result.val.geometry)) :
          Len(Polys(poly.result.val.geometry)[p]) >= 2

(***************************************************************************)
(* stitch over the two decoders (SpecPipe).                                *)
(***************************************************************************)
\* what each decoder makes of its whole input given as one chunk
shpAlone == shpTransform(SHPNew, Whole(shpBytes)).out

dbfAlone == dbfTransform(DBFNew, Whole(dbfBytes)).out

\* both inputs have closed without error and stitch has come to its end
pipeDone ==
    /\ shpIn.pc = "closed" /\ dbfIn.pc = "closed"
    /\ gen.pc \in {"returned", "threw"}

\* C34: when both inputs close without error, what stitch has yielded at
\* its end and how it ends depend on the two byte sequences alone, whatever
\* the order in which chunks came and the decoders and stitch took their
\* steps: the k-th yield is the k-th Feature of the one with the k-th row of
\* the other, for as many as both have, and stitch returns when the counts
\* agree and throws its TypeError when they do not.
C34_Interleaving ==
    pipeDone =>
        /\ Len(gen.yielded) = Min(Len(shpAlone), Len(dbfAlone))
        /\ \A k \in 1..Len(gen.yielded) :
              gen.yielded[k]
                  = [shpAlone[k] EXCEPT !.properties = [null |-> FALSE, row |-> dbfAlone[k]]]
        /\ (gen.pc = "returned") <=> (Len(shpAlone) = Len(dbfAlone))
        /\ gen.pc = "threw" =>
              /\ gen.err = "TypeError"
              /\ gen.msg = IF Len(shpAlone) < Len(dbfAlone)
                           THEN "stitch: not enough feature records."
                           ELSE "stitch: not enough dbf records."

\* the table came whole and was decoded before the first chunk of the
\* shapefile was asked for; the shapefile then came in pieces, and stitch
\* has returned after two yields
C34_Witness ==
    /\ pipeDone /\ gen.pc = "returned" /\ Len(gen.yielded) = 2 /\ Len(shpAlone) = 2
    /\ Len(shp.buffer) < Len(shpBytes) /\ Len(dbf.buffer) = Len(dbfBytes)

====
